---- MODULE Spec2Model ----
(***************************************************************************)
(* Model of the generation-and-parsing pipeline of Smar-TEST               *)
(* (core/test_generator.py, models/test_case.py).                          *)
(*                                                                         *)
(* A model response is a sequence of lexical tokens: the units the         *)
(* regular expressions of the parser and json.loads distinguish.           *)
(*   "F"   a ``` fence            "nl"  a newline (whitespace)             *)
(*   "{" "}" "[" "]" ","          the JSON punctuation                     *)
(*   "k:x" the member name "x":   "s:x" the string literal "x"             *)
(*   "n:3" a number, "null"       "q"   the quote of a string literal      *)
(*                                      whose content is spelled in tokens *)
(*   "bn"  the escape \n inside a string literal                            *)
(*   "w"   a prose word           "json" "python" "javascript" words that  *)
(*                                      are also fence language tags       *)
(*   "Feature:" "Scenario" "Scenario:" "Scenario Outline:"  gherkin words  *)
(*   "import" "#c" "test("        code words (an import, a comment, a call)*)
(***************************************************************************)
EXTENDS Integers, Sequences, FiniteSets, TLC

----------------------------------------------------------------------------
(* JSON values as Python holds them after json.loads *)

Str(s) == [t |-> "str", v |-> s]
Num(n) == [t |-> "num", v |-> n]
Null == [t |-> "null", v |-> ""]
Arr(a) == [t |-> "arr", v |-> a]
Obj(m) == [t |-> "obj", v |-> m]

\* Python None: the value of _extract_json when no candidate parses, and
\* what json.loads makes of null
NoJson == Null

IsDict(x) == x.t = "obj"
IsList(x) == x.t = "arr"

\* dict key lookup: the index of the last member named k, 0 when absent
\* (json.loads keeps the last of repeated names).
RECURSIVE KeyIndex(_, _, _)
KeyIndex(m, k, i) ==
    IF i = 0 THEN 0
    ELSE IF m[i][1] = k THEN i
    ELSE KeyIndex(m, k, i - 1)

HasKey(d, k) == KeyIndex(d.v, k, Len(d.v)) > 0

\* dict.get(k, default) of a dict d
Get(d, k, default) ==
    LET i == KeyIndex(d.v, k, Len(d.v))
    IN  IF i = 0 THEN default ELSE d.v[i][2]

\* Python truthiness of a JSON value
Truthy(x) ==
    CASE x.t = "null" -> FALSE
      [] x.t = "str"  -> x.v # ""
      [] x.t = "num"  -> x.v # 0
      [] x.t = "arr"  -> Len(x.v) > 0
      [] x.t = "obj"  -> Len(x.v) > 0
      [] OTHER -> TRUE

\* Whether `for e in x` raises TypeError (x is not iterable)
Iterable(x) == x.t \in {"arr", "obj", "str"}

\* The elements `for e in x` visits: a list's items, a dict's keys, a
\* string's characters (each a one-character string).
Elements(x) ==
    CASE x.t = "arr" -> x.v
      [] x.t = "obj" -> [i \in 1..Len(x.v) |-> Str(x.v[i][1])]
      [] x.t = "str" -> [i \in 1..Len(x.v) |-> Str("c")]
      [] OTHER -> <<>>

----------------------------------------------------------------------------
(* json.loads over tokens *)

KeyTokens ==
    {"k:test_cases", "k:test_id", "k:priority", "k:test_steps",
     "k:step_number", "k:action", "k:feature_files", "k:scripts",
     "k:content", "k:scenario_count", "k:filename", "k:description",
     "k:other"}

KeyName(tok) ==
    CASE tok = "k:test_cases" -> "test_cases"
      [] tok = "k:test_id" -> "test_id"
      [] tok = "k:priority" -> "priority"
      [] tok = "k:test_steps" -> "test_steps"
      [] tok = "k:step_number" -> "step_number"
      [] tok = "k:action" -> "action"
      [] tok = "k:feature_files" -> "feature_files"
      [] tok = "k:scripts" -> "scripts"
      [] tok = "k:content" -> "content"
      [] tok = "k:scenario_count" -> "scenario_count"
      [] tok = "k:filename" -> "filename"
      [] tok = "k:description" -> "description"
      [] OTHER -> "other"

ScalarTokens ==
    {"s:", "s:A", "s:B", "s:High", "s:Low", "s:test_cases", "s:2", "s:TC_002",
     "n:0", "n:1", "n:2", "n:7", "null"}

UnquotedTokens == {"n:0", "n:1", "n:2", "n:7", "null"}

ScalarValue(tok) ==
    CASE tok = "s:" -> Str("")
      [] tok = "s:A" -> Str("A")
      [] tok = "s:B" -> Str("B")
      [] tok = "s:High" -> Str("High")
      [] tok = "s:Low" -> Str("Low")
      [] tok = "s:test_cases" -> Str("test_cases")
      [] tok = "s:2" -> Str("2")
      [] tok = "s:TC_002" -> Str("TC_002")
      [] tok = "n:0" -> Num(0)
      [] tok = "n:1" -> Num(1)
      [] tok = "n:2" -> Num(2)
      [] tok = "n:7" -> Num(7)
      [] OTHER -> Null

\* The characters of a string literal spelled in tokens; the escape "bn"
\* is decoded to a line break
RECURSIVE Spell(_)
Spell(toks) ==
    IF toks = <<>> THEN ""
    ELSE (IF Head(toks) = "bn" THEN "\n" ELSE Head(toks)) \o Spell(Tail(toks))

\* The position of the first token equal to tok at or after i, 0 if none
RECURSIVE Find(_, _, _)
Find(toks, tok, i) ==
    IF i > Len(toks) THEN 0
    ELSE IF toks[i] = tok THEN i
    ELSE Find(toks, tok, i + 1)

\* The position of the first token at or after i that holds a quote
\* character (it ends a string literal opened before it), 0 if none
RECURSIVE FindQuote(_, _)
FindQuote(toks, i) ==
    IF i > Len(toks) THEN 0
    ELSE IF toks[i] = "q" \/ toks[i] \in KeyTokens
            \/ (toks[i] \in ScalarTokens /\ toks[i] \notin UnquotedTokens)
         THEN i
    ELSE FindQuote(toks, i + 1)

\* The first position at or after i that holds no whitespace
RECURSIVE SkipWs(_, _)
SkipWs(toks, i) ==
    IF i <= Len(toks) /\ toks[i] = "nl" THEN SkipWs(toks, i + 1) ELSE i

Fail == [ok |-> FALSE, val |-> NoJson, next |-> 0]

\* The JSON decoder: the value that starts at position i (after whitespace)
\* and the position after it, or Fail.
RECURSIVE ParseValue(_, _)
RECURSIVE ParseMembers(_, _, _)
RECURSIVE ParseItems(_, _, _)
ParseValue(toks, i0) ==
    LET i == SkipWs(toks, i0)
    IN  IF i > Len(toks) THEN Fail
        ELSE IF toks[i] \in ScalarTokens
             THEN [ok |-> TRUE, val |-> ScalarValue(toks[i]), next |-> i + 1]
        ELSE IF toks[i] = "q"
             THEN LET e == FindQuote(toks, i + 1)
                  IN  IF e = 0 \/ toks[e] # "q" THEN Fail
                      \* a raw line break inside a string literal is no JSON
                      ELSE IF Find(SubSeq(toks, i + 1, e - 1), "nl", 1) # 0 THEN Fail
                      ELSE [ok |-> TRUE, val |-> Str(Spell(SubSeq(toks, i + 1, e - 1))),
                            next |-> e + 1]
        ELSE IF toks[i] = "{"
             THEN LET j == SkipWs(toks, i + 1)
                  IN  IF j <= Len(toks) /\ toks[j] = "}"
                      THEN [ok |-> TRUE, val |-> Obj(<<>>), next |-> j + 1]
                      ELSE ParseMembers(toks, j, <<>>)
        ELSE IF toks[i] = "["
             THEN LET j == SkipWs(toks, i + 1)
                  IN  IF j <= Len(toks) /\ toks[j] = "]"
                      THEN [ok |-> TRUE, val |-> Arr(<<>>), next |-> j + 1]
                      ELSE ParseItems(toks, j, <<>>)
        ELSE Fail

\* members of an object from position i (a member name is expected there)
ParseMembers(toks, i0, acc) ==
    LET i == SkipWs(toks, i0)
    IN  IF i > Len(toks) \/ toks[i] \notin KeyTokens THEN Fail
        ELSE LET r == ParseValue(toks, i + 1)
             IN  IF ~r.ok THEN Fail
                 ELSE LET j == SkipWs(toks, r.next)
                          acc2 == Append(acc, <<KeyName(toks[i]), r.val>>)
                      IN  IF j > Len(toks) THEN Fail
                          ELSE IF toks[j] = "}"
                               THEN [ok |-> TRUE, val |-> Obj(acc2), next |-> j + 1]
                          ELSE IF toks[j] = ","
                               THEN ParseMembers(toks, j + 1, acc2)
                          ELSE Fail

\* items of an array from position i (a value is expected there)
ParseItems(toks, i0, acc) ==
    LET r == ParseValue(toks, i0)
    IN  IF ~r.ok THEN Fail
        ELSE LET j == SkipWs(toks, r.next)
                 acc2 == Append(acc, r.val)
             IN  IF j > Len(toks) THEN Fail
                 ELSE IF toks[j] = "]"
                      THEN [ok |-> TRUE, val |-> Arr(acc2), next |-> j + 1]
                 ELSE IF toks[j] = ","
                      THEN ParseItems(toks, j + 1, acc2)
                 ELSE Fail

\* json.loads(text): [ok, val]; not ok stands for json.JSONDecodeError
\* (one value, whitespace around it, nothing else).
JsonLoads(toks) ==
    LET r == ParseValue(toks, 1)
    IN  IF r.ok /\ SkipWs(toks, r.next) > Len(toks)
        THEN [ok |-> TRUE, val |-> r.val]
        ELSE [ok |-> FALSE, val |-> NoJson]

----------------------------------------------------------------------------
(* _extract_json *)

\* re.search(r'```(?:json)?\s*(\{[\s\S]*?\})\s*```', text), tried at the
\* fence at position i: the group's span <<first, last>>, or <<0, 0>>.
\* The group runs from the "{" that follows the fence (after an optional
\* json tag and whitespace) to the nearest "}" that whitespace and a fence
\* follow.
RECURSIVE FencedEnd(_, _)
FencedEnd(toks, e) ==
    IF e > Len(toks) THEN 0
    ELSE IF toks[e] = "}" /\ SkipWs(toks, e + 1) <= Len(toks)
            /\ toks[SkipWs(toks, e + 1)] = "F"
         THEN e
    ELSE FencedEnd(toks, e + 1)

FencedAt(toks, i) ==
    LET j == IF i + 1 <= Len(toks) /\ toks[i + 1] = "json" THEN i + 2 ELSE i + 1
        k == SkipWs(toks, j)
    IN  IF k <= Len(toks) /\ toks[k] = "{"
        THEN LET e == FencedEnd(toks, k + 1)
             IN  IF e = 0 THEN <<0, 0>> ELSE <<k, e>>
        ELSE <<0, 0>>

\* the leftmost fence at which the pattern matches
RECURSIVE FencedSearch(_, _)
FencedSearch(toks, i) ==
    IF i > Len(toks) THEN <<0, 0>>
    ELSE IF toks[i] = "F" /\ FencedAt(toks, i) # <<0, 0>> THEN FencedAt(toks, i)
    ELSE FencedSearch(toks, i + 1)

\* the position of the last token equal to tok, 0 if none
RECURSIVE FindLast(_, _, _)
FindLast(toks, tok, i) ==
    IF i = 0 THEN 0
    ELSE IF toks[i] = tok THEN i
    ELSE FindLast(toks, tok, i - 1)

\* re.search(r'\{[\s\S]*\}', text): from the first "{" to the last "}"
BraceSearch(toks) ==
    LET a == Find(toks, "{", 1)
        b == FindLast(toks, "}", Len(toks))
    IN  IF a # 0 /\ b > a THEN <<a, b>> ELSE <<0, 0>>

\* _extract_json(text): the first candidate that json.loads accepts, among
\* the fenced group, the brace span and the whole text; else None.
ExtractJson(toks) ==
    LET f == FencedSearch(toks, 1)
        fj == IF f # <<0, 0>> THEN JsonLoads(SubSeq(toks, f[1], f[2]))
              ELSE [ok |-> FALSE, val |-> NoJson]
        b == BraceSearch(toks)
        bj == IF b # <<0, 0>> THEN JsonLoads(SubSeq(toks, b[1], b[2]))
              ELSE [ok |-> FALSE, val |-> NoJson]
        wj == JsonLoads(toks)
    IN  IF fj.ok THEN fj.val
        ELSE IF bj.ok THEN bj.val
        ELSE IF wj.ok THEN wj.val
        ELSE NoJson

----------------------------------------------------------------------------
(* models/test_case.py: the artifacts *)

Digit(d) == <<"0", "1", "2", "3", "4", "5", "6", "7", "8", "9">>[d + 1]

\* str(n) of a natural number
RECURSIVE ToStr(_)
ToStr(n) == IF n < 10 THEN Digit(n) ELSE ToStr(n \div 10) \o Digit(n % 10)

\* f'{n:03d}'
Pad3(n) ==
    IF n < 10 THEN "00" \o ToStr(n)
    ELSE IF n < 100 THEN "0" \o ToStr(n)
    ELSE ToStr(n)

TestStep(step_number, action, test_data, expected_result) ==
    [step_number |-> step_number, action |-> action,
     test_data |-> test_data, expected_result |-> expected_result]

ManualTestCase(test_id, test_name, description, preconditions, test_steps, expected_results, priority, category, tags) ==
    [test_id |-> test_id, test_name |-> test_name, description |-> description,
     preconditions |-> preconditions, test_steps |-> test_steps,
     expected_results |-> expected_results, priority |-> priority,
     category |-> category, status |-> Str("New"), tags |-> tags,
     notes |-> Str("")]

AutomationScript(script_type, filename, content, related_test_ids, feature_name, scenario_count) ==
    [script_type |-> script_type, filename |-> filename, content |-> content,
     related_test_ids |-> related_test_ids, feature_name |-> feature_name,
     scenario_count |-> scenario_count]

----------------------------------------------------------------------------
(* models/test_case.py: to_dict, from_dict and the JSON text between them *)

\* TestSuite(...) of the dataclass
TestSuite(name, description, manual_tests, gherkin_scripts, selenium_scripts, playwright_scripts, client_name, requirement_source, generated_at) ==
    [name |-> name, description |-> description, manual_tests |-> manual_tests,
     gherkin_scripts |-> gherkin_scripts, selenium_scripts |-> selenium_scripts,
     playwright_scripts |-> playwright_scripts, client_name |-> client_name,
     requirement_source |-> requirement_source, generated_at |-> generated_at]

\* isinstance(step, TestStep): an object of the dataclass, not a JSON value
IsTestStep(step) == DOMAIN step = {"step_number", "action", "test_data", "expected_result"}

\* cls(**data): TypeError when data has a name that is no field, or lacks
\* a field without default
Accepts(data, fields, required) ==
    /\ \A i \in 1..Len(data.v) : \E j \in 1..Len(fields) : fields[j] = data.v[i][1]
    /\ \A j \in 1..Len(required) : HasKey(data, required[j])

Rejected == [ok |-> FALSE, value |-> Null]

Accepted(value) == [ok |-> TRUE, value |-> value]

StepToDict(step) ==
    Obj(<<<<"step_number", step.step_number>>, <<"action", step.action>>,
          <<"test_data", step.test_data>>,
          <<"expected_result", step.expected_result>>>>)

StepFromDict(data) ==
    IF ~Accepts(data, <<"step_number", "action", "test_data", "expected_result">>,
                <<"step_number", "action">>)
    THEN Rejected
    ELSE Accepted(TestStep(Get(data, "step_number", Null), Get(data, "action", Null),
                           Get(data, "test_data", Str("")),
                           Get(data, "expected_result", Str(""))))

\* [step.to_dict() if isinstance(step, TestStep) else step for step in ...]
StepsToDicts(test_steps) ==
    [i \in 1..Len(test_steps) |->
        IF IsTestStep(test_steps[i]) THEN StepToDict(test_steps[i]) ELSE test_steps[i]]

ManualTestCaseToDict(tc) ==
    Obj(<<<<"test_id", tc.test_id>>, <<"test_name", tc.test_name>>,
          <<"description", tc.description>>, <<"preconditions", tc.preconditions>>,
          <<"test_steps", Arr(StepsToDicts(tc.test_steps))>>,
          <<"expected_results", tc.expected_results>>, <<"priority", tc.priority>>,
          <<"category", tc.category>>, <<"status", tc.status>>, <<"tags", tc.tags>>,
          <<"notes", tc.notes>>>>)

\* The loop of from_dict over steps_data: [ok, steps]; a dict becomes a
\* TestStep, anything else is kept
RECURSIVE StepsFromDicts(_, _, _)
StepsFromDicts(steps_data, i, test_steps) ==
    IF i > Len(steps_data) THEN [ok |-> TRUE, steps |-> test_steps]
    ELSE IF IsDict(steps_data[i])
         THEN LET r == StepFromDict(steps_data[i])
              IN  IF ~r.ok THEN [ok |-> FALSE, steps |-> test_steps]
                  ELSE StepsFromDicts(steps_data, i + 1, Append(test_steps, r.value))
    ELSE StepsFromDicts(steps_data, i + 1, Append(test_steps, steps_data[i]))

ManualTestCaseFields ==
    <<"test_id", "test_name", "description", "preconditions", "test_steps",
      "expected_results", "priority", "category", "status", "tags", "notes">>

\* from_dict with the loop left out: the steps stay the dicts they were
ManualTestCaseFromDictKeepingDicts(data) ==
    IF ~Accepts(data, ManualTestCaseFields, <<"test_id", "test_name", "description">>)
    THEN Rejected
    ELSE LET tc == ManualTestCase(Get(data, "test_id", Null), Get(data, "test_name", Null),
                                  Get(data, "description", Null),
                                  Get(data, "preconditions", Arr(<<>>)),
                                  Elements(Get(data, "test_steps", Arr(<<>>))),
                                  Get(data, "expected_results", Arr(<<>>)),
                                  Get(data, "priority", Str("Medium")),
                                  Get(data, "category", Str("Functional")),
                                  Get(data, "tags", Arr(<<>>)))
         IN  Accepted([tc EXCEPT !.status = Get(data, "status", Str("New")),
                                 !.notes = Get(data, "notes", Str(""))])

\* ManualTestCase.from_dict(data): [ok, value].  data.pop('test_steps', [])
\* and data['test_steps'] = test_steps also change the caller's dict; the
\* value returned does not depend on that.
ManualTestCaseFromDict(data) ==
    LET steps_data == Get(data, "test_steps", Arr(<<>>))
    IN  IF ~Iterable(steps_data) THEN Rejected
        ELSE LET st == StepsFromDicts(Elements(steps_data), 1, <<>>)
             IN  IF ~st.ok THEN Rejected
                 ELSE IF ~Accepts(data, ManualTestCaseFields,
                                  <<"test_id", "test_name", "description">>)
                      THEN Rejected
                 ELSE LET tc == ManualTestCase(
                                    Get(data, "test_id", Null), Get(data, "test_name", Null),
                                    Get(data, "description", Null),
                                    Get(data, "preconditions", Arr(<<>>)),
                                    st.steps,
                                    Get(data, "expected_results", Arr(<<>>)),
                                    Get(data, "priority", Str("Medium")),
                                    Get(data, "category", Str("Functional")),
                                    Get(data, "tags", Arr(<<>>)))
                      IN  Accepted([tc EXCEPT !.status = Get(data, "status", Str("New")),
                                              !.notes = Get(data, "notes", Str(""))])

\* script_type is the one attribute the model keeps as a bare string
AutomationScriptToDict(script) ==
    Obj(<<<<"script_type", Str(script.script_type)>>, <<"filename", script.filename>>,
          <<"content", script.content>>, <<"related_test_ids", script.related_test_ids>>,
          <<"feature_name", script.feature_name>>,
          <<"scenario_count", script.scenario_count>>>>)

AutomationScriptFromDict(data) ==
    IF ~Accepts(data, <<"script_type", "filename", "content", "related_test_ids",
                        "feature_name", "scenario_count">>,
                <<"script_type", "filename", "content">>)
    THEN Rejected
    ELSE Accepted(AutomationScript(Get(data, "script_type", Null).v,
                                   Get(data, "filename", Null), Get(data, "content", Null),
                                   Get(data, "related_test_ids", Arr(<<>>)),
                                   Get(data, "feature_name", Str("")),
                                   Get(data, "scenario_count", Num(0))))

TestSuiteToDict(suite) ==
    Obj(<<<<"name", suite.name>>, <<"description", suite.description>>,
          <<"manual_tests",
            Arr([i \in 1..Len(suite.manual_tests) |->
                    ManualTestCaseToDict(suite.manual_tests[i])])>>,
          <<"gherkin_scripts",
            Arr([i \in 1..Len(suite.gherkin_scripts) |->
                    AutomationScriptToDict(suite.gherkin_scripts[i])])>>,
          <<"selenium_scripts",
            Arr([i \in 1..Len(suite.selenium_scripts) |->
                    AutomationScriptToDict(suite.selenium_scripts[i])])>>,
          <<"playwright_scripts",
            Arr([i \in 1..Len(suite.playwright_scripts) |->
                    AutomationScriptToDict(suite.playwright_scripts[i])])>>,
          <<"client_name", suite.client_name>>,
          <<"requirement_source", suite.requirement_source>>,
          <<"generated_at", suite.generated_at>>>>)

\* [ManualTestCase.from_dict(t) for t in items]: [ok, values]
RECURSIVE TestsFromDicts(_, _, _)
TestsFromDicts(items, i, values) ==
    IF i > Len(items) THEN [ok |-> TRUE, values |-> values]
    ELSE IF ~IsDict(items[i]) THEN [ok |-> FALSE, values |-> values]
    ELSE LET r == ManualTestCaseFromDict(items[i])
         IN  IF ~r.ok THEN [ok |-> FALSE, values |-> values]
             ELSE TestsFromDicts(items, i + 1, Append(values, r.value))

\* [AutomationScript.from_dict(s) for s in items]: [ok, values]
RECURSIVE ScriptsFromDicts(_, _, _)
ScriptsFromDicts(items, i, values) ==
    IF i > Len(items) THEN [ok |-> TRUE, values |-> values]
    ELSE IF ~IsDict(items[i]) THEN [ok |-> FALSE, values |-> values]
    ELSE LET r == AutomationScriptFromDict(items[i])
         IN  IF ~r.ok THEN [ok |-> FALSE, values |-> values]
             ELSE ScriptsFromDicts(items, i + 1, Append(values, r.value))

TestSuiteFromDict(data) ==
    LET m == Get(data, "manual_tests", Arr(<<>>))
        g == Get(data, "gherkin_scripts", Arr(<<>>))
        s == Get(data, "selenium_scripts", Arr(<<>>))
        p == Get(data, "playwright_scripts", Arr(<<>>))
    IN  IF ~HasKey(data, "name") THEN Rejected
        ELSE IF \E x \in {m, g, s, p} : ~Iterable(x) THEN Rejected
        ELSE LET mt == TestsFromDicts(Elements(m), 1, <<>>)
                 gs == ScriptsFromDicts(Elements(g), 1, <<>>)
                 ss == ScriptsFromDicts(Elements(s), 1, <<>>)
                 ps == ScriptsFromDicts(Elements(p), 1, <<>>)
             IN  IF ~(mt.ok /\ gs.ok /\ ss.ok /\ ps.ok) THEN Rejected
                 ELSE Accepted(TestSuite(Get(data, "name", Null),
                                         Get(data, "description", Str("")),
                                         mt.values, gs.values, ss.values, ps.values,
                                         Get(data, "client_name", Str("")),
                                         Get(data, "requirement_source", Str("")),
                                         Get(data, "generated_at", Str(""))))

\* to_dict and from_dict of the class named cls
ToDict(cls, x) ==
    CASE cls = "TestStep" -> StepToDict(x)
      [] cls = "ManualTestCase" -> ManualTestCaseToDict(x)
      [] cls = "AutomationScript" -> AutomationScriptToDict(x)
      [] OTHER -> TestSuiteToDict(x)

FromDict(cls, data) ==
    CASE cls = "TestStep" -> StepFromDict(data)
      [] cls = "ManualTestCase" -> ManualTestCaseFromDict(data)
      [] cls = "AutomationScript" -> AutomationScriptFromDict(data)
      [] OTHER -> TestSuiteFromDict(data)

\* The JSON text of a dict, symbol by symbol: punctuation, member names and
\* scalar literals
Sym(p, x) == [p |-> p, x |-> x]

Punct(p) == Sym(p, Null)

RECURSIVE JsonDumps(_)
RECURSIVE DumpMembers(_)
RECURSIVE DumpItems(_)
JsonDumps(x) ==
    CASE x.t = "obj" -> <<Punct("{")>> \o DumpMembers(x.v) \o <<Punct("}")>>
      [] x.t = "arr" -> <<Punct("[")>> \o DumpItems(x.v) \o <<Punct("]")>>
      [] OTHER -> <<Sym("literal", x)>>

DumpMembers(m) ==
    IF m = <<>> THEN <<>>
    ELSE <<Sym("literal", Str(m[1][1])), Punct(":")>> \o JsonDumps(m[1][2])
         \o (IF Len(m) = 1 THEN <<>> ELSE <<Punct(",")>> \o DumpMembers(Tail(m)))

DumpItems(a) ==
    IF a = <<>> THEN <<>>
    ELSE JsonDumps(a[1]) \o (IF Len(a) = 1 THEN <<>> ELSE <<Punct(",")>> \o DumpItems(Tail(a)))

\* json.loads of such a text: the value that starts at symbol i and the
\* position after it
NoValue == [ok |-> FALSE, val |-> Null, next |-> 0]

RECURSIVE LoadValue(_, _)
RECURSIVE LoadMembers(_, _, _)
RECURSIVE LoadItems(_, _, _)
LoadValue(text, i) ==
    IF i > Len(text) THEN NoValue
    ELSE IF text[i].p = "literal" THEN [ok |-> TRUE, val |-> text[i].x, next |-> i + 1]
    ELSE IF text[i].p = "{"
         THEN IF i + 1 <= Len(text) /\ text[i + 1].p = "}"
              THEN [ok |-> TRUE, val |-> Obj(<<>>), next |-> i + 2]
              ELSE LoadMembers(text, i + 1, <<>>)
    ELSE IF text[i].p = "["
         THEN IF i + 1 <= Len(text) /\ text[i + 1].p = "]"
              THEN [ok |-> TRUE, val |-> Arr(<<>>), next |-> i + 2]
              ELSE LoadItems(text, i + 1, <<>>)
    ELSE NoValue

LoadMembers(text, i, acc) ==
    IF i + 1 > Len(text) \/ text[i].p # "literal" \/ text[i].x.t # "str"
       \/ text[i + 1].p # ":"
    THEN NoValue
    ELSE LET r == LoadValue(text, i + 2)
         IN  IF ~r.ok \/ r.next > Len(text) THEN NoValue
             ELSE LET acc2 == Append(acc, <<text[i].x.v, r.val>>)
                  IN  IF text[r.next].p = "}"
                      THEN [ok |-> TRUE, val |-> Obj(acc2), next |-> r.next + 1]
                      ELSE IF text[r.next].p = ","
                           THEN LoadMembers(text, r.next + 1, acc2)
                      ELSE NoValue

LoadItems(text, i, acc) ==
    LET r == LoadValue(text, i)
    IN  IF ~r.ok \/ r.next > Len(text) THEN NoValue
        ELSE LET acc2 == Append(acc, r.val)
             IN  IF text[r.next].p = "]"
                 THEN [ok |-> TRUE, val |-> Arr(acc2), next |-> r.next + 1]
                 ELSE IF text[r.next].p = ","
                      THEN LoadItems(text, r.next + 1, acc2)
                 ELSE NoValue

\* json.loads(json.dumps(data)): [ok, val]
ThroughJson(data) ==
    LET r == LoadValue(JsonDumps(data), 1)
    IN  IF r.ok /\ r.next = Len(JsonDumps(data)) + 1
        THEN [ok |-> TRUE, val |-> r.val]
        ELSE [ok |-> FALSE, val |-> Null]

----------------------------------------------------------------------------
(* _parse_manual_tests *)

\* The loop over tc_data.get('test_steps', []): [ok, steps]; not ok when a
\* step_data has no .get (it is not a dict).
RECURSIVE MapSteps(_, _, _)
MapSteps(items, i, steps) ==
    IF i > Len(items) THEN [ok |-> TRUE, steps |-> steps]
    ELSE IF ~IsDict(items[i]) THEN [ok |-> FALSE, steps |-> steps]
    ELSE MapSteps(items, i + 1,
                  Append(steps,
                         TestStep(Get(items[i], "step_number", Num(Len(steps) + 1)),
                                  Get(items[i], "action", Str("")),
                                  Get(items[i], "test_data", Str("")),
                                  Get(items[i], "expected_result", Str("")))))

\* The body of the per-record try: [ok, test]; not ok when it raises
\* (tc_data is no dict, test_steps is not iterable, a step is no dict).
\* n is len(tests) when the record is reached.
MapManualRecord(tc_data, n) ==
    LET none == [ok |-> FALSE, test |-> Null]
    IN  IF ~IsDict(tc_data) THEN none
        ELSE LET sv == Get(tc_data, "test_steps", Arr(<<>>))
             IN  IF ~Iterable(sv) THEN none
                 ELSE LET st == MapSteps(Elements(sv), 1, <<>>)
                      IN  IF ~st.ok THEN none
                          ELSE [ok |-> TRUE,
                                test |-> ManualTestCase(
                                    Get(tc_data, "test_id", Str("TC_" \o Pad3(n + 1))),
                                    Get(tc_data, "test_name", Str("Unnamed Test")),
                                    Get(tc_data, "description", Str("")),
                                    Get(tc_data, "preconditions", Arr(<<>>)),
                                    st.steps,
                                    Get(tc_data, "expected_results", Arr(<<>>)),
                                    Get(tc_data, "priority", Str("Medium")),
                                    Get(tc_data, "category", Str("Functional")),
                                    Get(tc_data, "tags", Arr(<<>>)))]

\* for tc_data in json_data['test_cases']: a record that raises is skipped
RECURSIVE MapManualRecords(_, _, _)
MapManualRecords(items, i, tests) ==
    IF i > Len(items) THEN tests
    ELSE LET r == MapManualRecord(items[i], Len(tests))
         IN  MapManualRecords(items, i + 1,
                              IF r.ok THEN Append(tests, r.test) ELSE tests)

\* `k in x` of Python: [ok, has]; not ok when it raises TypeError.  A
\* string of the model contains the name k only when it is k.
Contains(x, k) ==
    CASE x.t = "obj" -> [ok |-> TRUE, has |-> HasKey(x, k)]
      [] x.t = "arr" -> [ok |-> TRUE, has |-> \E i \in 1..Len(x.v) : x.v[i] = Str(k)]
      [] x.t = "str" -> [ok |-> TRUE, has |-> x.v = k]
      [] OTHER -> [ok |-> FALSE, has |-> FALSE]

\* x[k] with a string k: [ok, val]; only a dict can be indexed by a name
Index(x, k) ==
    IF IsDict(x) /\ HasKey(x, k) THEN [ok |-> TRUE, val |-> Get(x, k, Null)]
    ELSE [ok |-> FALSE, val |-> Null]

\* The test case the except branch appends
PlaceholderTest ==
    ManualTestCase(Str("TC_001"), Str("Manual Review Required"),
                   Str("The LLM response could not be parsed. Please review the raw output."),
                   Arr(<<Str("Review LLM output")>>),
                   <<TestStep(Num(1), Str("Review raw LLM response"), Str(""), Str(""))>>,
                   Arr(<<Str("Test cases extracted manually")>>),
                   Str("High"), Str("Functional"), Arr(<<>>))

\* The outer try of _parse_manual_tests on the extracted value:
\* [raised, tests].
ManualStructured(json_data) ==
    IF ~Truthy(json_data) THEN [raised |-> FALSE, tests |-> <<>>]
    ELSE LET c == Contains(json_data, "test_cases")
         IN  IF ~c.ok THEN [raised |-> TRUE, tests |-> <<>>]
             ELSE IF ~c.has THEN [raised |-> FALSE, tests |-> <<>>]
             ELSE LET x == Index(json_data, "test_cases")
                  IN  IF ~x.ok \/ ~Iterable(x.val)
                      THEN [raised |-> TRUE, tests |-> <<>>]
                      ELSE [raised |-> FALSE,
                            tests |-> MapManualRecords(Elements(x.val), 1, <<>>)]

ParseManualTests(response) ==
    LET r == ManualStructured(ExtractJson(response))
    IN  IF r.raised THEN Append(r.tests, PlaceholderTest) ELSE r.tests

----------------------------------------------------------------------------
(* _parse_gherkin_scripts, _parse_automation_scripts: the JSON tiers *)

\* The AutomationScript built from one record.  mode names the branch:
\*   "g_ff" gherkin from feature_files    "g_sc" gherkin from scripts
\*   "a_sc" automation from scripts       "a_ff" automation from feature_files
MakeScript(mode, script_type, rec, content) ==
    CASE mode = "g_ff" ->
           AutomationScript("gherkin", Get(rec, "filename", Str("feature.feature")),
                            content, Get(rec, "related_test_ids", Arr(<<>>)),
                            Get(rec, "feature_name", Str("")),
                            Get(rec, "scenario_count", Num(0)))
      [] mode = "g_sc" ->
           AutomationScript("gherkin", Get(rec, "filename", Str("feature.feature")),
                            content, Get(rec, "related_test_ids", Arr(<<>>)),
                            Get(rec, "feature_name", Get(rec, "description", Str(""))),
                            Get(rec, "scenario_count", Num(0)))
      [] mode = "a_sc" ->
           AutomationScript(script_type, Get(rec, "filename", Str("test." \o script_type)),
                            content, Get(rec, "related_test_ids", Arr(<<>>)),
                            Get(rec, "description", Str("")), Num(0))
      [] OTHER ->
           AutomationScript(script_type, Get(rec, "filename", Str("test." \o script_type)),
                            content, Get(rec, "related_test_ids", Arr(<<>>)),
                            Get(rec, "description", Get(rec, "feature_name", Str(""))),
                            Num(0))

\* The loop over the records of the list.  A record without .get (no dict)
\* raises out of the loop: the scripts appended before it stay, the records
\* after it are never reached.  A record with falsy content is passed over.
RECURSIVE MapScriptRecords(_, _, _, _, _)
MapScriptRecords(items, i, scripts, mode, script_type) ==
    IF i > Len(items) THEN scripts
    ELSE IF ~IsDict(items[i]) THEN scripts
    ELSE LET content == Get(items[i], "content", Str(""))
         IN  MapScriptRecords(items, i + 1,
                              IF Truthy(content)
                              THEN Append(scripts,
                                          MakeScript(mode, script_type, items[i], content))
                              ELSE scripts,
                              mode, script_type)

\* The try block of the two parsers on the extracted value: the scripts it
\* leaves (an exception is swallowed).  first and second are the list names
\* in the order the code looks for them.
ScriptsStructured(json_data, first, second, mode1, mode2, script_type) ==
    IF ~Truthy(json_data) THEN <<>>
    ELSE LET c1 == Contains(json_data, first)
             c2 == Contains(json_data, second)
             key == IF c1.has THEN first ELSE second
             mode == IF c1.has THEN mode1 ELSE mode2
         IN  IF ~c1.ok THEN <<>>
             ELSE IF ~c1.has /\ ~c2.has THEN <<>>
             ELSE LET x == Index(json_data, key)
                  IN  IF ~x.ok \/ ~Iterable(x.val) THEN <<>>
                      ELSE MapScriptRecords(Elements(x.val), 1, <<>>, mode, script_type)

----------------------------------------------------------------------------
(* _extract_raw_gherkin *)

\* text.strip(): without the whitespace at its ends
RECURSIVE Strip(_)
Strip(toks) ==
    IF toks = <<>> THEN toks
    ELSE IF Head(toks) = "nl" THEN Strip(Tail(toks))
    ELSE IF toks[Len(toks)] = "nl" THEN Strip(SubSeq(toks, 1, Len(toks) - 1))
    ELSE toks

\* A Python str spelled by tokens (a block of the response)
Text(toks) == [t |-> "text", v |-> toks]

\* The end of the block that starts at s: the lazy .*? stops at the first
\* position that "\nFeature:" or the end of the text follows.
RECURSIVE BlockEnd(_, _)
BlockEnd(toks, e) ==
    IF e >= Len(toks) THEN Len(toks)
    ELSE IF toks[e + 1] = "nl" /\ e + 2 <= Len(toks) /\ toks[e + 2] = "Feature:"
         THEN e
    ELSE BlockEnd(toks, e + 1)

\* feature_pattern.findall(response): the blocks, in order
RECURSIVE FeatureBlocks(_, _)
FeatureBlocks(toks, pos) ==
    LET s == Find(toks, "Feature:", pos)
    IN  IF s = 0 THEN <<>>
        ELSE LET e == BlockEnd(toks, s)
             IN  <<SubSeq(toks, s, e)>> \o FeatureBlocks(toks, e + 1)

ScenarioWords == {"Scenario", "Scenario:", "Scenario Outline:"}

\* len(re.findall(r'Scenario(?:\s+Outline)?:', content))
ScenarioCount(content) ==
    Cardinality({i \in 1..Len(content) : content[i] \in {"Scenario:", "Scenario Outline:"}})

\* re.match(r'Feature:\s*(.+)', content).group(1).strip(): the rest of the
\* first line that holds anything after the keyword
FeatureName(content) ==
    LET a == SkipWs(content, 2)
        b == Find(content, "nl", a)
    IN  SubSeq(content, a, IF b = 0 THEN Len(content) ELSE b - 1)

\* str.lower() of the strings of the model
Lower(x) ==
    CASE x = "A" -> "a"
      [] x = "B" -> "b"
      [] x = "High" -> "high"
      [] x = "Low" -> "low"
      [] x = "TC_002" -> "tc_002"
      [] OTHER -> x

\* re.sub(r'[^a-zA-Z0-9_]', '_', word.lower()) of the characters of one token
SlugOf(tok) ==
    CASE tok \in KeyTokens -> "_" \o SubSeq(tok, 3, Len(tok)) \o "__"
      [] tok \in ScalarTokens \ UnquotedTokens ->
           "_" \o Lower(SubSeq(tok, 3, Len(tok))) \o "_"
      [] tok \in UnquotedTokens \ {"null"} -> SubSeq(tok, 3, Len(tok))
      [] tok \in {"w", "null", "import", "json", "python", "javascript"} -> tok
      [] tok = "Scenario" -> "scenario"
      [] tok = "Scenario:" -> "scenario_"
      [] tok = "Scenario Outline:" -> "scenario_outline_"
      [] tok = "Feature:" -> "feature_"
      [] tok = "F" -> "___"
      [] tok = "#c" -> "_c"
      [] tok = "bn" -> "_n"
      [] tok = "test(" -> "test_"
      [] OTHER -> "_"

\* The slug of a name: its words' slugs, the space between two words as "_"
RECURSIVE Slug(_)
Slug(name) ==
    IF name = <<>> THEN ""
    ELSE IF Len(name) = 1 THEN SlugOf(name[1])
    ELSE SlugOf(name[1]) \o (IF name[1] = "F" THEN "" ELSE "_") \o Slug(Tail(name))

\* The [:50] of the filename
FilenameCap == 50

Prefix(str, n) == SubSeq(str, 1, IF Len(str) < n THEN Len(str) ELSE n)

\* The loop over the blocks: a block is kept when it is not empty and
\* contains the word Scenario.
RECURSIVE RawGherkinLoop(_, _, _)
RawGherkinLoop(matches, i, scripts) ==
    IF i > Len(matches) THEN scripts
    ELSE LET content == Strip(matches[i])
         IN  RawGherkinLoop(matches, i + 1,
               IF content # <<>> /\ \E p \in 1..Len(content) : content[p] \in ScenarioWords
               THEN Append(scripts,
                      AutomationScript("gherkin",
                        Str(Prefix(Slug(FeatureName(content)), FilenameCap)
                            \o ".feature"),
                        Text(content), Arr(<<>>),
                        Text(FeatureName(content)),
                        Num(ScenarioCount(content))))
               ELSE scripts)

ExtractRawGherkin(response) == RawGherkinLoop(FeatureBlocks(response, 1), 1, <<>>)

ParseGherkinScripts(response) ==
    LET scripts == ScriptsStructured(ExtractJson(response), "feature_files", "scripts",
                                     "g_ff", "g_sc", "gherkin")
    IN  IF scripts = <<>> THEN ExtractRawGherkin(response) ELSE scripts

----------------------------------------------------------------------------
(* _extract_raw_code_blocks *)

LangHints(script_type) ==
    IF script_type = "selenium" THEN {"python"} ELSE {"javascript"}

FileExt(script_type) == IF script_type = "selenium" THEN ".py" ELSE ".spec.js"

\* str.capitalize() of the script type
Capitalized(script_type) ==
    IF script_type = "selenium" THEN "Selenium" ELSE "Playwright"

\* A fallback that keeps every non-empty block, whatever it holds
LooksLikeAnything(code, script_type) == code # <<>>

\* any(indicator in code ...).  Two tokens on one line are a space apart,
\* so "import " (playwright) needs a token after the import on its line.
LooksLikeCode(code, script_type) ==
    IF script_type = "selenium"
    THEN \E p \in 1..Len(code) : code[p] = "import"
    ELSE \E p \in 1..Len(code) :
            \/ code[p] = "test("
            \/ code[p] = "import" /\ p < Len(code) /\ code[p + 1] # "nl"

\* code_block_pattern.findall(response): at a fence, an optional language
\* hint, then whitespace ending in a newline, then the code up to the next
\* fence.  A fence where the pattern does not match is passed over.
RECURSIVE CodeBlocks(_, _, _)
CodeBlocks(toks, pos, hints) ==
    LET i == Find(toks, "F", pos)
    IN  IF i = 0 THEN <<>>
        ELSE LET j == IF i + 1 <= Len(toks) /\ toks[i + 1] \in hints THEN i + 2 ELSE i + 1
                 k == SkipWs(toks, j)
                 c == Find(toks, "F", k)
             IN  IF j <= Len(toks) /\ toks[j] = "nl" /\ c # 0
                 THEN <<SubSeq(toks, k, c - 1)>> \o CodeBlocks(toks, c + 1, hints)
                 ELSE CodeBlocks(toks, i + 1, hints)

\* The loop over the matches; i counts every match, kept or not.
RECURSIVE RawCodeLoop(_, _, _, _)
RawCodeLoop(matches, i, scripts, script_type) ==
    IF i > Len(matches) THEN scripts
    ELSE LET code == Strip(matches[i])
         IN  RawCodeLoop(matches, i + 1,
               IF code # <<>> /\ LooksLikeCode(code, script_type)
               THEN Append(scripts,
                      AutomationScript(script_type,
                        Str("test_generated_" \o ToStr(i) \o FileExt(script_type)),
                        Text(code), Arr(<<>>),
                        Str("Generated " \o Capitalized(script_type) \o " test " \o ToStr(i)),
                        Num(0)))
               ELSE scripts,
               script_type)

ExtractRawCodeBlocks(response, script_type) ==
    RawCodeLoop(CodeBlocks(response, 1, LangHints(script_type)), 1, <<>>, script_type)

ParseAutomationScripts(response, script_type) ==
    LET scripts == ScriptsStructured(ExtractJson(response), "scripts", "feature_files",
                                     "a_sc", "a_ff", script_type)
    IN  IF scripts = <<>> THEN ExtractRawCodeBlocks(response, script_type) ELSE scripts

----------------------------------------------------------------------------
(* The responses a model may give: the wire shapes of templates/prompts.py *)
(* and what a model returns instead of them                                *)

MaxRecords == 2
MaxLines == 3
MaxBlocks == 2
MaxProse == 1

\* all sequences of at most n elements of S
SeqsUpTo(S, n) == UNION {[1..k -> S] : k \in 0..n}

\* the concatenation of a sequence of token sequences, sep between two
RECURSIVE Concat(_, _)
Concat(parts, sep) ==
    IF parts = <<>> THEN <<>>
    ELSE IF Len(parts) = 1 THEN parts[1]
    ELSE parts[1] \o sep \o Concat(Tail(parts), sep)

\* String contents a response spells out in tokens: a description that
\* quotes an empty fenced object, a feature file's text.
SpelledContents ==
    {<<"F", "{", "}", "F">>, <<"Feature:", "w", "bn", "Scenario:", "w">>}

\* json.dumps as the model writes it: the tokens of a value
RECURSIVE Render(_)
RECURSIVE RenderMembers(_)
RECURSIVE RenderItems(_)
Render(x) ==
    CASE x.t = "obj" -> <<"{">> \o RenderMembers(x.v) \o <<"}">>
      [] x.t = "arr" -> <<"[">> \o RenderItems(x.v) \o <<"]">>
      [] x.t = "num" -> <<"n:" \o ToStr(x.v)>>
      [] x.t = "str" ->
           IF \E c \in SpelledContents : Spell(c) = x.v
           THEN <<"q">> \o (CHOOSE c \in SpelledContents : Spell(c) = x.v) \o <<"q">>
           ELSE <<"s:" \o x.v>>
      [] OTHER -> <<"null">>

RenderMembers(m) ==
    IF m = <<>> THEN <<>>
    ELSE <<"k:" \o m[1][1]>> \o Render(m[1][2])
         \o (IF Len(m) = 1 THEN <<>> ELSE <<",">> \o RenderMembers(Tail(m)))

RenderItems(a) ==
    IF a = <<>> THEN <<>>
    ELSE Render(a[1]) \o (IF Len(a) = 1 THEN <<>> ELSE <<",">> \o RenderItems(Tail(a)))

Step(n, a) == Obj(<<<<"step_number", Num(n)>>, <<"action", Str(a)>>>>)

\* Records that follow the manual-test schema
SchemaRecords ==
    {Obj(<<<<"test_id", Str("A")>>, <<"priority", Str("High")>>,
           <<"test_steps", Arr(<<Step(1, "A")>>)>>>>),
     Obj(<<<<"test_id", Str("B")>>, <<"priority", Str("Low")>>,
           <<"test_steps", Arr(<<Step(1, "B"), Step(2, "A")>>)>>>>),
     Obj(<<<<"test_id", Str("TC_002")>>,
           <<"description", Str(Spell(<<"F", "{", "}", "F">>))>>,
           <<"priority", Str("Low")>>,
           <<"test_steps", Arr(<<Step(1, "A")>>)>>>>)}

\* Records a model returns that leave the schema: fields left out, an
\* identifier of the TC_nnn form, step numbers left out or repeated, and
\* records whose mapping raises
LooseRecords ==
    {Obj(<<<<"priority", Str("Low")>>>>),
     Obj(<<<<"test_id", Str("TC_002")>>>>),
     Obj(<<<<"test_id", Str("A")>>,
           <<"test_steps", Arr(<<Obj(<<<<"action", Str("A")>>>>),
                                 Obj(<<<<"step_number", Num(7)>>>>)>>)>>>>)}

RaisingRecords ==
    {Num(7),
     Obj(<<<<"test_id", Str("B")>>, <<"test_steps", Null>>>>),
     Obj(<<<<"test_id", Str("B")>>, <<"test_steps", Arr(<<Num(1)>>)>>>>)}

ManualRecords == SchemaRecords \cup LooseRecords \cup RaisingRecords

\* Script and feature-file records: well formed, without content, with a
\* scenario count that is no number, and a record that is no object
ScriptRecords ==
    {Obj(<<<<"filename", Str("A")>>, <<"content", Str("A")>>,
           <<"scenario_count", Num(2)>>>>),
     Obj(<<<<"content", Str("B")>>>>),
     Obj(<<<<"content", Str(Spell(<<"Feature:", "w", "bn", "Scenario:", "w">>))>>,
           <<"scenario_count", Str("2")>>>>),
     Obj(<<<<"filename", Str("B")>>, <<"content", Str("")>>>>),
     Num(7)}

\* JSON documents whose top level is not the expected object
OddDocs ==
    {Obj(<<>>), Obj(<<<<"other", Num(1)>>>>), Num(7), Num(0), Null,
     Str("test_cases"), Arr(<<Str("test_cases")>>), Arr(<<>>),
     Obj(<<<<"test_cases", Null>>>>), Obj(<<<<"test_cases", Str("A")>>>>),
     Obj(<<<<"test_cases", Obj(<<<<"other", Num(1)>>>>)>>>>),
     Obj(<<<<"feature_files", Null>>>>), Obj(<<<<"scripts", Num(2)>>>>),
     Obj(<<<<"scripts", Arr(<<>>)>>,
           <<"feature_files", Arr(<<Obj(<<<<"content", Str("A")>>>>)>>)>>>>)}

ManualDocs == {Obj(<<<<"test_cases", Arr(l)>>>>) : l \in SeqsUpTo(ManualRecords, MaxRecords)}

ScriptDocs ==
    {Obj(<<<<k, Arr(l)>>>>) : k \in {"feature_files", "scripts"},
                              l \in SeqsUpTo(ScriptRecords, MaxRecords)}

\* Documents placed in prose and fences
EmbeddedDocs ==
    {Obj(<<<<"test_cases", Arr(<<Obj(<<<<"test_id", Str("A")>>>>)>>)>>>>),
     Obj(<<<<"feature_files", Arr(<<Obj(<<<<"content", Str("A")>>>>)>>)>>>>),
     Obj(<<<<"other", Obj(<<<<"other", Num(1)>>>>)>>>>),
     Obj(<<>>)}

\* Prose around a document: words, and the braces and fences prose may hold
ProseTokens == {"w", "{", "}", "F", "nl"}

Proses == SeqsUpTo(ProseTokens, MaxProse)

Wraps == {"plain", "fence", "fence_json", "fence_nl"}

\* A document as the response carries it
Wrapped(wrap, toks) ==
    CASE wrap = "fence" -> <<"F">> \o toks \o <<"F">>
      [] wrap = "fence_json" -> <<"F", "json", "nl">> \o toks \o <<"nl", "F">>
      [] wrap = "fence_nl" -> <<"F", "nl">> \o toks \o <<"nl", "F">>
      [] OTHER -> toks

\* Gherkin prose: lines joined by newlines
GherkinLines ==
    {<<>>, <<"w">>, <<"Feature:", "w">>, <<"Feature:">>, <<"Scenario:", "w">>,
     <<"Scenario">>, <<"Scenario Outline:", "w">>, <<"w", "Feature:", "w">>}

GherkinTexts == {Concat(l, <<"nl">>) : l \in SeqsUpTo(GherkinLines, MaxLines)}

\* Answers with fenced code: chunks of prose and fenced blocks
CodeChunks ==
    {<<"w">>, <<"import", "w">>,
     <<"F", "python", "nl", "import", "w", "nl", "F">>,
     <<"F", "python", "nl", "#c", "nl", "F">>,
     <<"F", "nl", "import", "nl", "F">>,
     <<"F", "javascript", "nl", "test(", "nl", "F">>,
     <<"F", "javascript", "nl", "import", "w", "nl", "F">>,
     <<"F", "json", "nl", "import", "w", "nl", "F">>,
     <<"F", "nl", "nl", "F">>,
     <<"F", "import", "F">>}

CodeTexts == {Concat(l, <<"nl">>) : l \in SeqsUpTo(CodeChunks, MaxBlocks)}

\* What the adapter may return to each stage of a generation
ManualResponses ==
    {<<"w">>,
     Render(Obj(<<<<"test_cases", Arr(<<>>)>>>>)),
     Render(Obj(<<<<"test_cases", Null>>>>)),
     Render(Obj(<<<<"test_cases",
                    Arr(<<Obj(<<<<"test_id", Str("A")>>,
                                <<"test_steps", Arr(<<Step(1, "A")>>)>>>>),
                          Num(7),
                          Obj(<<<<"priority", Str("Low")>>>>)>>)>>>>)),
     <<"w", "F", "json", "nl">>
         \o Render(Obj(<<<<"test_cases", Arr(<<Obj(<<<<"test_id", Str("B")>>>>)>>)>>>>))
         \o <<"nl", "F">>}

GherkinResponses ==
    {<<"w">>,
     <<"w", "nl", "Feature:", "w", "nl", "Scenario:", "w">>,
     Render(Obj(<<<<"feature_files",
                    Arr(<<Obj(<<<<"filename", Str("A")>>, <<"content", Str("A")>>,
                                <<"scenario_count", Num(2)>>>>)>>)>>>>)),
     Render(Obj(<<<<"feature_files",
                    Arr(<<Obj(<<<<"content", Str("B")>>,
                                <<"scenario_count", Str("2")>>>>)>>)>>>>)),
     Render(Obj(<<<<"scripts", Arr(<<Obj(<<<<"content", Str("B")>>>>)>>)>>>>))}

CodeResponses ==
    {<<"w">>,
     <<"F", "python", "nl", "import", "w", "nl", "F">>,
     <<"F", "javascript", "nl", "test(", "nl", "F">>,
     Render(Obj(<<<<"scripts",
                    Arr(<<Obj(<<<<"filename", Str("A")>>,
                                <<"content", Str("A")>>>>)>>)>>>>))}

\* What the adapter's generate may raise (ConnectionFailure, DependencyMissing)
AdapterErrors ==
    {[type |-> "ConnectionError", msg |-> "Failed to connect to Ollama"],
     [type |-> "ImportError", msg |-> "openai package is required for OpenAI models"]}

----------------------------------------------------------------------------
(* generate_test_suite *)

\* GenerationProgress(stage, progress, message, completed=False, error=None).
\* progress is the numerator of the fraction over 100 * total_steps, the
\* common denominator of every fraction of one call.
GenerationProgress(stage, progress, message, completed, error) ==
    [stage |-> stage, progress |-> progress, message |-> message,
     completed |-> completed, error |-> error]

Min(a, b) == IF a < b THEN a ELSE b

\* report_progress: the events go to the callback, in order, only when one
\* was given
ReportProgress(evs, callback, reported) ==
    IF callback THEN evs \o reported ELSE evs

\* The place in `reported` of the first event the callback raises on (0:
\* none); raises holds the stage tags it raises on
RECURSIVE RaisingAt(_, _, _)
RaisingAt(raises, reported, i) ==
    IF i > Len(reported) THEN 0
    ELSE IF reported[i].stage \in raises THEN i
    ELSE RaisingAt(raises, reported, i + 1)

\* Whether the callback raises during the reports: the exception leaves
\* report_progress and step_progress and reaches the try of the caller
CallbackRaised(callback, raises, reported) ==
    callback /\ RaisingAt(raises, reported, 1) # 0

\* The events the callback received by then: the one it raised on is the last
Delivered(raises, reported) ==
    IF RaisingAt(raises, reported, 1) = 0 THEN reported
    ELSE SubSeq(reported, 1, RaisingAt(raises, reported, 1))

\* What a failing callback raises
CallbackError == [type |-> "RuntimeError", msg |-> "callback failed"]

\* step_progress without the cap: the event at base + step_size * sub_progress
StepProgressUncapped(cur, total, step_name, sub_stage, sub_progress) ==
    GenerationProgress(step_name, cur * 100 + sub_progress, sub_stage, FALSE, NoJson)

\* step_progress(step_name, sub_stage, sub_progress), sub_progress in
\* hundredths: the event at base + step_size * sub_progress, capped at 0.99
StepProgress(cur, total, step_name, sub_stage, sub_progress) ==
    GenerationProgress(step_name, Min(cur * 100 + sub_progress, 99 * total),
                       sub_stage, FALSE, NoJson)

\* str(e)
StrOf(e) == e.msg

\* The except clause without its error report: the event it sends carries
\* neither the completion flag nor the failure description.
ReportErrorUnflagged(evs, callback, e) ==
    IF callback
    THEN Append(evs, GenerationProgress("error", 0, "Generation failed", FALSE, NoJson))
    ELSE evs

\* The except clause: the error event, when a callback was given
ReportError(evs, callback, e) ==
    IF callback
    THEN Append(evs, GenerationProgress("error", 0, "Generation failed", TRUE,
                                        Str(StrOf(e))))
    ELSE evs

\* sum(s.scenario_count for s in gherkin_scripts): [ok, total]; not ok is
\* the TypeError of adding a value that is no number
RECURSIVE SumScenarioCounts(_, _, _)
SumScenarioCounts(scripts, i, acc) ==
    IF i > Len(scripts) THEN [ok |-> TRUE, total |-> acc]
    ELSE IF scripts[i].scenario_count.t # "num" THEN [ok |-> FALSE, total |-> acc]
    ELSE SumScenarioCounts(scripts, i + 1, acc + scripts[i].scenario_count.v)

SumTypeError ==
    [type |-> "TypeError", msg |-> "unsupported operand type(s) for +: 'int' and 'str'"]

NoExc == [type |-> "", msg |-> ""]

EmptySuite ==
    [manual_tests |-> <<>>, gherkin_scripts |-> <<>>,
     selenium_scripts |-> <<>>, playwright_scripts |-> <<>>]

----------------------------------------------------------------------------
(* core/llm_adapter.py: the provider adapters *)

\* The adapter variants, each in each of its modes
Variants ==
    {"ollama", "hf_api", "hf_local", "openai", "groq", "anthropic",
     "vllm_server", "vllm_local"}

\* Variants that talk HTTP through requests, through a vendor client
\* library, and through an in-process runtime
HttpVariants == {"ollama", "hf_api", "vllm_server"}

SdkVariants == {"openai", "groq", "anthropic"}

LocalVariants == {"hf_local", "vllm_local"}

\* A text: a Python str as its characters
Chars == <<"a", "b", "c">>

TextOfLen(n) == [i \in 1..n |-> Chars[(i % 3) + 1]]

\* The classes an exception is an instance of (the except clauses match on
\* them).  requests: ReadTimeout < Timeout, ConnectTimeout < ConnectionError
\* and Timeout, all < RequestException; the builtin ConnectionError is no
\* RequestException.
ClassesOf(exc) ==
    CASE exc = "ReadTimeout" -> {"ReadTimeout", "Timeout", "RequestException", "Exception"}
      [] exc = "ConnectTimeout" ->
           {"ConnectTimeout", "Timeout", "requests.ConnectionError",
            "RequestException", "Exception"}
      [] exc = "requests.ConnectionError" ->
           {"requests.ConnectionError", "RequestException", "Exception"}
      [] exc = "HTTPError" -> {"HTTPError", "RequestException", "Exception"}
      [] exc = "JSONDecodeError" ->
           {"JSONDecodeError", "RequestException", "ValueError", "Exception"}
      [] OTHER -> {exc, "Exception"}

IsA(exc, class) == class \in ClassesOf(exc)

\* What one request (or one client-library or runtime call) comes to:
\* an HTTP response with a status and a body, or an exception raised by
\* the transport, the client library or the runtime.
\*   text: the generated text of the body    names: the model names of the body
\*   parses: whether the body is the JSON the adapter expects
Response(status, text, names, parses) ==
    [exc |-> "", status |-> status, text |-> text, names |-> names, parses |-> parses]

Raises(exc) == [exc |-> exc, status |-> 0, text |-> <<>>, names |-> <<>>, parses |-> FALSE]

\* An exception an adapter raises itself: its class and the causes its
\* message names
Error(type, causes) == [type |-> type, msg |-> causes]

NoError == Error("", <<>>)

\* What a call of an adapter operation comes to
Returned(text) ==
    [kind |-> "returned", text |-> text, fragments |-> <<>>, flag |-> FALSE,
     models |-> <<>>, exc |-> NoError]

Raised(e) ==
    [kind |-> "raised", text |-> <<>>, fragments |-> <<>>, flag |-> FALSE,
     models |-> <<>>, exc |-> e]

\* A call: the requests it issued, in order, and what it came to
Done(n, res) == [requests |-> n, result |-> res]

\* response.json(): a body that is not JSON raises the JSONDecodeError of
\* requests where the adapter reads it
Decoded(o) ==
    IF o.exc = "" /\ o.status = 200 /\ ~o.parses THEN Raises("JSONDecodeError") ELSE o

\* The cause a message built from str(e) names
CauseOf(out) == IF out.exc # "" THEN out.exc ELSE "status " \o ToStr(out.status)

\* An OllamaAdapter.generate that posts again after a timeout
OllamaGenerateRetrying(outs) ==
    LET o == Decoded(IF IsA(outs[1].exc, "Timeout") THEN outs[2] ELSE outs[1])
        n == IF IsA(outs[1].exc, "Timeout") THEN 2 ELSE 1
    IN  IF o.exc = "" /\ o.status = 200 THEN Done(n, Returned(o.text))
        ELSE Done(n, Raised(Error("ConnectionError",
                                  <<"Failed to connect to Ollama", CauseOf(o)>>)))

\* OllamaAdapter.generate: one POST; outs are the answers the backend
\* gives to the successive requests of the call.
OllamaGenerate(outs) ==
    LET o == Decoded(outs[1])
    IN  IF o.exc = "" /\ o.status = 200 THEN Done(1, Returned(o.text))
        ELSE IF IsA(o.exc, "ReadTimeout")
             THEN Done(1, Raised(Error("ConnectionError", <<"Ollama request timed out">>)))
        ELSE IF o.exc = "" \/ IsA(o.exc, "RequestException")
             THEN Done(1, Raised(Error("ConnectionError",
                                       <<"Failed to connect to Ollama", CauseOf(o)>>)))
        ELSE Done(1, Raised(Error(o.exc, <<>>)))

\* VLLMAdapter._generate_server: one POST
VllmGenerateServer(outs) ==
    LET o == Decoded(outs[1])
    IN  IF o.exc = "" /\ o.status = 200 THEN Done(1, Returned(o.text))
        ELSE IF IsA(o.exc, "Timeout")
             THEN Done(1, Raised(Error("ConnectionError",
                                       <<"vLLM server request timed out">>)))
        ELSE IF o.exc = "" \/ IsA(o.exc, "RequestException")
             THEN Done(1, Raised(Error("ConnectionError",
                                       <<"Failed to connect to vLLM server", CauseOf(o)>>)))
        ELSE Done(1, Raised(Error(o.exc, <<>>)))

\* OpenAIAdapter.generate, GroqAdapter.generate, AnthropicAdapter.generate:
\* one call of the vendor's client; ImportError is passed on as
\* ImportError, every other exception becomes a ConnectionError.
SdkGenerate(variant, outs) ==
    LET o == outs[1]
    IN  IF o.exc = "" THEN Done(1, Returned(o.text))
        ELSE IF IsA(o.exc, "ImportError")
             THEN Done(0, Raised(Error("ImportError", <<variant \o " package is required">>)))
        ELSE Done(1, Raised(Error("ConnectionError",
                                  <<variant \o " API error", CauseOf(o)>>)))

\* HuggingFaceAdapter._generate_local, VLLMAdapter._generate_local: the
\* in-process runtime; a missing library is an ImportError, anything else
\* the runtime raises is passed on.
LocalGenerate(variant, outs) ==
    LET o == outs[1]
    IN  IF o.exc = "" THEN Done(0, Returned(o.text))
        ELSE IF IsA(o.exc, "ImportError")
             THEN Done(0, Raised(Error("ImportError", <<variant \o " runtime is required">>)))
        ELSE Done(0, Raised(Error(o.exc, <<>>)))

\* The last_error the chat-completion attempt of the router leaves ("" when
\* the attempt returned content)
ChatLastError(o) ==
    IF o.exc = ""
    THEN IF o.status = 403 THEN "Access Denied (403)"
         ELSE IF o.status # 200 THEN "Chat API (" \o ToStr(o.status) \o ")"
         ELSE IF o.text # <<>> THEN ""
         ELSE "Chat API returned empty response"
    ELSE IF IsA(o.exc, "Timeout") THEN "Chat API request timed out"
    ELSE IF IsA(o.exc, "requests.ConnectionError") THEN "Cannot reach router.huggingface.co"
    ELSE IF IsA(o.exc, "RequestException") THEN "Chat API error"
    ELSE "raised"

\* HuggingFaceAdapter._generate_api: the chat-completion attempt, then the
\* legacy attempt unless the first returned content.
HfGenerateApi(api_token, outs) ==
    LET chat == Decoded(outs[1])
        legacy == Decoded(outs[2])
        last_error == ChatLastError(chat)
    IN  IF ~api_token
        THEN Done(0, Raised(Error("ConnectionError",
                                  <<"HuggingFace API token is required">>)))
        ELSE IF last_error = "" THEN Done(1, Returned(chat.text))
        ELSE IF last_error = "raised" THEN Done(1, Raised(Error(chat.exc, <<>>)))
        ELSE IF legacy.exc = "" /\ legacy.status = 403
             THEN Done(2, Raised(Error("ConnectionError",
                                       <<"Access Denied (403) - HuggingFace API">>)))
        ELSE IF legacy.exc = "" /\ legacy.status # 200
             THEN Done(2, Raised(Error("ConnectionError",
                                       <<"HuggingFace API failed",
                                         "Chat Completions: " \o last_error,
                                         "Legacy API (" \o ToStr(legacy.status) \o ")">>)))
        ELSE IF legacy.exc = "" THEN Done(2, Returned(legacy.text))
        ELSE IF IsA(legacy.exc, "RequestException")
             THEN Done(2, Raised(Error("ConnectionError",
                                       <<"HuggingFace API failed",
                                         "Chat Completions: " \o last_error,
                                         "Legacy API: " \o legacy.exc>>)))
        ELSE Done(2, Raised(Error(legacy.exc, <<>>)))

\* generate of each variant
Generate(variant, api_token, outs) ==
    CASE variant = "ollama" -> OllamaGenerate(outs)
      [] variant = "vllm_server" -> VllmGenerateServer(outs)
      [] variant = "hf_api" -> HfGenerateApi(api_token, outs)
      [] variant \in SdkVariants -> SdkGenerate(variant, outs)
      [] OTHER -> LocalGenerate(variant, outs)

\* chunk_size of the sliced streams
ChunkSize == 50

\* result[i:i + chunk_size]
Slice(text, i, n) == SubSeq(text, i + 1, Min(i + n, Len(text)))

\* [result[i:i + n] for i in range(0, len(result), n)]
Slices(text, n) == [k \in 1..((Len(text) + n - 1) \div n) |-> Slice(text, (k - 1) * n, n)]

\* "".join(fragments)
RECURSIVE Join(_)
Join(fragments) ==
    IF fragments = <<>> THEN <<>> ELSE Head(fragments) \o Join(Tail(fragments))

\* What iterating a stream to its end comes to: the fragments it yielded, then
\* its end or the exception that ended it
Yielded(fragments) ==
    [kind |-> "returned", text |-> <<>>, fragments |-> fragments, flag |-> FALSE,
     models |-> <<>>, exc |-> NoError]

YieldedThenRaised(fragments, e) ==
    [kind |-> "raised", text |-> <<>>, fragments |-> fragments, flag |-> FALSE,
     models |-> <<>>, exc |-> e]

\* The non-empty fragments a streaming backend delivers, line by line, for a
\* response text: wire is the size of the pieces this backend sends
WireLines(text, wire) == Slices(text, wire)

\* OllamaAdapter.generate_stream: native streaming; a line that is not JSON
\* raises the JSONDecodeError of json.loads, which no clause catches
OllamaGenerateStream(outs, wire) ==
    LET o == outs[1]
    IN  IF o.exc = "" /\ o.status = 200 /\ ~o.parses
        THEN Done(1, Raised(Error("json.JSONDecodeError", <<>>)))
        ELSE IF o.exc = "" /\ o.status = 200 THEN Done(1, Yielded(WireLines(o.text, wire)))
        ELSE IF IsA(o.exc, "ReadTimeout")
             THEN Done(1, Raised(Error("ConnectionError", <<"Ollama request timed out">>)))
        ELSE IF o.exc = "" \/ IsA(o.exc, "RequestException")
             THEN Done(1, Raised(Error("ConnectionError",
                                       <<"Failed to connect to Ollama", CauseOf(o)>>)))
        ELSE Done(1, Raised(Error(o.exc, <<>>)))

\* VLLMAdapter._generate_stream_server: native streaming; a line that is
\* not JSON is passed over
VllmGenerateStreamServer(outs, wire) ==
    LET o == outs[1]
    IN  IF o.exc = "" /\ o.status = 200 THEN Done(1, Yielded(WireLines(o.text, wire)))
        ELSE IF IsA(o.exc, "Timeout")
             THEN Done(1, Raised(Error("ConnectionError",
                                       <<"vLLM server request timed out">>)))
        ELSE IF o.exc = "" \/ IsA(o.exc, "RequestException")
             THEN Done(1, Raised(Error("ConnectionError",
                                       <<"Failed to connect to vLLM server", CauseOf(o)>>)))
        ELSE Done(1, Raised(Error(o.exc, <<>>)))

\* OpenAIAdapter.generate_stream, GroqAdapter.generate_stream,
\* AnthropicAdapter.generate_stream: the only except clause is ImportError,
\* so every other exception of the client reaches the caller as it is.
SdkGenerateStream(variant, outs, wire) ==
    LET o == outs[1]
    IN  IF o.exc = "" THEN Done(1, Yielded(WireLines(o.text, wire)))
        ELSE IF IsA(o.exc, "ImportError")
             THEN Done(0, Raised(Error("ImportError", <<variant \o " package is required">>)))
        ELSE Done(1, Raised(Error(o.exc, <<>>)))

\* HuggingFaceAdapter.generate_stream, and the else branch of
\* VLLMAdapter.generate_stream: generate, then slices of chunk_size
SlicedStream(done) ==
    IF done.result.kind = "raised" THEN done
    ELSE Done(done.requests, Yielded(Slices(done.result.text, ChunkSize)))

\* VLLMAdapter.generate_stream: the function holds a yield, so it is a
\* generator function in both modes; in server mode its body returns the
\* inner generator as the StopIteration value, and iterating it yields
\* nothing and issues no request.
VllmGenerateStream(use_server, outs, wire) ==
    IF use_server THEN Done(0, Yielded(<<>>))
    ELSE SlicedStream(LocalGenerate("vllm_local", outs))

\* generate_stream of each variant, iterated to its end
GenerateStream(variant, api_token, outs, wire) ==
    CASE variant = "ollama" -> OllamaGenerateStream(outs, wire)
      [] variant \in {"vllm_server", "vllm_local"} ->
           VllmGenerateStream(variant = "vllm_server", outs, wire)
      [] variant \in {"hf_api", "hf_local"} -> SlicedStream(Generate(variant, api_token, outs))
      [] OTHER -> SdkGenerateStream(variant, outs, wire)

\* What a probe and an enumeration come to
Flag(b) ==
    [kind |-> "returned", text |-> <<>>, fragments |-> <<>>, flag |-> b,
     models |-> <<>>, exc |-> NoError]

Models(names) ==
    [kind |-> "returned", text |-> <<>>, fragments |-> <<>>, flag |-> FALSE,
     models |-> names, exc |-> NoError]

\* A model name is a str, as its characters.  self.model.split(":")[0]
RECURSIVE BaseModel(_)
BaseModel(model) ==
    IF model = <<>> \/ Head(model) = ":" THEN <<>>
    ELSE <<Head(model)>> \o BaseModel(Tail(model))

\* base_model in name
In(base_model, name) ==
    \E i \in 0..(Len(name) - Len(base_model)) :
        SubSeq(name, i + 1, i + Len(base_model)) = base_model

\* OllamaAdapter.is_available
OllamaIsAvailable(model, outs) ==
    LET o == outs[1]
    IN  IF o.exc # "" THEN Done(1, Flag(FALSE))
        ELSE IF o.status # 200 THEN Done(1, Flag(FALSE))
        ELSE IF ~o.parses THEN Done(1, Flag(FALSE))
        ELSE Done(1, Flag(\E k \in 1..Len(o.names) : In(BaseModel(model), o.names[k])))

\* HuggingFaceAdapter.is_available
HfIsAvailable(use_api, api_token, outs) ==
    IF use_api
    THEN IF ~api_token THEN Done(0, Flag(FALSE))
         ELSE IF outs[1].exc # "" THEN Done(1, Flag(FALSE))
         ELSE IF outs[1].status # 200 THEN Done(1, Flag(FALSE))
         ELSE IF outs[2].exc # "" THEN Done(2, Flag(FALSE))
         ELSE Done(2, Flag(outs[2].status = 200))
    ELSE Done(0, Flag(outs[1].exc = ""))

\* OpenAIAdapter.is_available, GroqAdapter.is_available,
\* AnthropicAdapter.is_available: api_key is the api_token of the others
SdkIsAvailable(variant, api_key, outs) ==
    IF ~api_key THEN Done(0, Flag(FALSE))
    ELSE IF variant = "openai" THEN Done(1, Flag(outs[1].exc = ""))
    ELSE Done(0, Flag(outs[1].exc = ""))

\* VLLMAdapter.is_available: in local mode the answer of the runtime is
\* what the imports raise or, as its status, what torch.cuda.is_available()
\* reports (200: a device is there); only ImportError is caught.
VllmIsAvailable(use_server, outs) ==
    LET o == outs[1]
    IN  IF use_server
        THEN IF o.exc # "" THEN Done(1, Flag(FALSE)) ELSE Done(1, Flag(o.status = 200))
        ELSE IF o.exc = "" THEN Done(0, Flag(o.status = 200))
        ELSE IF IsA(o.exc, "ImportError") THEN Done(0, Flag(FALSE))
        ELSE Done(0, Raised(Error(o.exc, <<>>)))

\* is_available of each variant
IsAvailable(variant, model, api_token, outs) ==
    CASE variant = "ollama" -> OllamaIsAvailable(model, outs)
      [] variant \in {"hf_api", "hf_local"} -> HfIsAvailable(variant = "hf_api", api_token, outs)
      [] variant \in {"vllm_server", "vllm_local"} ->
           VllmIsAvailable(variant = "vllm_server", outs)
      [] OTHER -> SdkIsAvailable(variant, api_token, outs)

\* The curated lists the get_models bodies return, each name as one piece
StaticModels(variant) ==
    CASE variant \in {"hf_api", "hf_local"} ->
           << <<"meta-llama/Llama-3.1-8B-Instruct">>, <<"meta-llama/Llama-3.3-70B-Instruct">>,
              <<"Qwen/Qwen2.5-7B-Instruct">>, <<"Qwen/Qwen2.5-Coder-32B-Instruct">>,
              <<"mistralai/Mistral-7B-Instruct-v0.2">>,
              <<"deepseek-ai/DeepSeek-R1-Distill-Qwen-7B">>, <<"HuggingFaceTB/SmolLM3-3B">>,
              <<"meta-llama/Llama-3.2-3B-Instruct">> >>
      [] variant = "openai" ->
           << <<"gpt-4">>, <<"gpt-4-turbo">>, <<"gpt-4o">>, <<"gpt-4o-mini">>,
              <<"gpt-3.5-turbo">> >>
      [] variant = "groq" ->
           << <<"llama-3.1-70b-versatile">>, <<"llama-3.1-8b-instant">>,
              <<"llama-3.2-90b-text-preview">>, <<"mixtral-8x7b-32768">>, <<"gemma2-9b-it">> >>
      [] variant = "anthropic" ->
           << <<"claude-3-opus-20240229">>, <<"claude-3-sonnet-20240229">>,
              <<"claude-3-haiku-20240307">>, <<"claude-3-5-sonnet-20241022">> >>
      [] variant \in {"vllm_server", "vllm_local"} ->
           << <<"meta-llama/Llama-3.1-8B-Instruct">>, <<"meta-llama/Llama-3.1-70B-Instruct">>,
              <<"meta-llama/Llama-3.3-70B-Instruct">>, <<"Qwen/Qwen2.5-7B-Instruct">>,
              <<"Qwen/Qwen2.5-14B-Instruct">>, <<"Qwen/Qwen2.5-32B-Instruct">>,
              <<"Qwen/Qwen2.5-Coder-7B-Instruct">>, <<"mistralai/Mistral-7B-Instruct-v0.3">>,
              <<"mistralai/Mixtral-8x7B-Instruct-v0.1">>,
              <<"deepseek-ai/DeepSeek-R1-Distill-Qwen-7B">> >>
      [] OTHER -> <<>>

\* OllamaAdapter.get_models
OllamaGetModels(outs) ==
    LET o == outs[1]
    IN  IF o.exc = "" /\ o.status = 200 /\ o.parses THEN Done(1, Models(o.names))
        ELSE Done(1, Models(<<>>))

\* VLLMAdapter.get_models: a failed discovery is passed over and the
\* curated list returned
VllmGetModels(use_server, outs) ==
    LET o == outs[1]
    IN  IF use_server /\ o.exc = "" /\ o.status = 200 /\ o.parses
        THEN Done(1, Models(o.names))
        ELSE Done(IF use_server THEN 1 ELSE 0, Models(StaticModels("vllm_server")))

\* get_models of each variant
GetModels(variant, outs) ==
    CASE variant = "ollama" -> OllamaGetModels(outs)
      [] variant \in {"vllm_server", "vllm_local"} ->
           VllmGetModels(variant = "vllm_server", outs)
      [] OTHER -> Done(0, Models(StaticModels(variant)))

\* config/llm_config.py: the values of LLMProvider
LLMProviders == {"ollama", "huggingface", "openai", "groq", "anthropic", "vllm"}

\* The model a facade over the default adapter of a configuration uses:
\* the model field of the configured provider (openai_model stands for the
\* model fields of the providers other than Ollama)
ModelOf(cfg) == IF cfg.llm_provider = "ollama" THEN cfg.ollama_model ELSE cfg.openai_model

\* A facade: the class it is of ("default": LLMAdapter, "code":
\* CodeLLMAdapter) and the provider and model of its _adapter
Facade(kind, provider, model) == [kind |-> kind, provider |-> provider, model |-> model]

\* What a factory comes to: the facade, or the exception raised
Built(facade) == [facade |-> facade, exc |-> NoError]

Failed(e) == [facade |-> Facade("none", "", <<>>), exc |-> e]

\* LLMAdapter.__init__ with _initialize_adapter, and get_llm_adapter
InitializeAdapter(cfg) ==
    IF cfg.llm_provider \in LLMProviders
    THEN Built(Facade("default", cfg.llm_provider, ModelOf(cfg)))
    ELSE Failed(Error("ValueError", <<"Unknown LLM provider">>))

\* LLMAdapter.get_provider_name: the llm_provider of self.settings, which
\* is the global object (of content `global`) when the facade shares it
GetProviderName(facade, global) ==
    IF facade.shared THEN global.llm_provider ELSE facade.own.llm_provider

\* LLMAdapter.refresh: self.settings is set to the global object first;
\* _initialize_adapter then assigns _adapter, or raises and leaves it
Refresh(facade, global) ==
    LET r == InitializeAdapter(global)
    IN  [facade EXCEPT !.shared = TRUE,
                       !.adapter = IF r.exc = NoError THEN r.facade ELSE @,
                       !.exc = r.exc]

\* A get_code_llm_adapter that binds the code model without asking for it
GetCodeLlmAdapterUnprobed(cfg, outs) ==
    IF cfg.llm_provider = "ollama"
    THEN Built(Facade("code", "ollama", cfg.ollama_code_model))
    ELSE InitializeAdapter(cfg)

\* get_code_llm_adapter: outs are the answers to the requests of the probe
GetCodeLlmAdapter(cfg, outs) ==
    IF /\ cfg.llm_provider = "ollama"
       /\ cfg.use_code_model_for_scripts
       /\ OllamaIsAvailable(cfg.ollama_code_model, outs).result.flag
    THEN Built(Facade("code", "ollama", cfg.ollama_code_model))
    ELSE InitializeAdapter(cfg)

----------------------------------------------------------------------------
(* templates/prompts.py: the prompt builders *)

\* A prompt is a str: the characters of the injected texts, and one token
\* for each literal stretch of a template.

\* The caps of the injected fields
RequirementsCap == 3000

ContextCap == 1000

ManualTestsCap == 2000

SummaryCap == 500

\* client_context.strip(): the text without its leading and trailing blanks
RECURSIVE StripBlanks(_)
StripBlanks(str) ==
    IF str = <<>> THEN str
    ELSE IF Head(str) = " " THEN StripBlanks(Tail(str))
    ELSE IF str[Len(str)] = " " THEN StripBlanks(SubSeq(str, 1, Len(str) - 1))
    ELSE str

\* "\n".join(instructions) of get_manual_test_prompt
AdditionalInstructions(include_edge_cases, include_negative, include_boundary) ==
    Concat(<< <<"- Positive/functional tests">> >>
           \o (IF include_negative THEN << <<"- Negative tests">> >> ELSE <<>>)
           \o (IF include_edge_cases THEN << <<"- Edge cases">> >> ELSE <<>>)
           \o (IF include_boundary THEN << <<"- Boundary value tests">> >> ELSE <<>>),
           <<"nl">>)

\* A get_manual_test_prompt that injects the requirements as they come
GetManualTestPromptUncut(requirements, client_context, include_edge_cases, include_negative, include_boundary) ==
    <<"Generate manual test cases for these requirements:">>
    \o requirements
    \o (IF client_context # <<>> /\ StripBlanks(client_context) # <<>>
        THEN <<"Client context:">> \o Prefix(client_context, ContextCap)
        ELSE <<>>)
    \o <<"Return ONLY valid JSON in this exact format:", "Generate 5-10 test cases covering:">>
    \o AdditionalInstructions(include_edge_cases, include_negative, include_boundary)
    \o <<"Return ONLY the JSON, no other text.">>

\* PromptTemplates.get_manual_test_prompt
GetManualTestPrompt(requirements, client_context, include_edge_cases, include_negative, include_boundary) ==
    <<"Generate manual test cases for these requirements:">>
    \o Prefix(requirements, RequirementsCap)
    \o (IF client_context # <<>> /\ StripBlanks(client_context) # <<>>
        THEN <<"Client context:">> \o Prefix(client_context, ContextCap)
        ELSE <<>>)
    \o <<"Return ONLY valid JSON in this exact format:", "Generate 5-10 test cases covering:">>
    \o AdditionalInstructions(include_edge_cases, include_negative, include_boundary)
    \o <<"Return ONLY the JSON, no other text.">>

\* PromptTemplates.get_gherkin_prompt
GetGherkinPrompt(manual_tests, requirements_summary) ==
    <<"Convert these test cases to Gherkin format:">>
    \o Prefix(manual_tests, ManualTestsCap)
    \o <<"Requirements:">>
    \o Prefix(requirements_summary, SummaryCap)
    \o <<"Return ONLY valid JSON:", "Return ONLY the JSON, no other text.">>

\* PromptTemplates.get_selenium_prompt: the template has no place for the
\* requirements summary
GetSeleniumPrompt(manual_tests, requirements_summary) ==
    <<"Generate Selenium Python tests for:">>
    \o Prefix(manual_tests, ManualTestsCap)
    \o <<"Return ONLY valid JSON:", "Return ONLY JSON.">>

\* PromptTemplates.get_playwright_prompt
GetPlaywrightPrompt(manual_tests, requirements_summary) ==
    <<"Generate Playwright JavaScript tests for:">>
    \o Prefix(manual_tests, ManualTestsCap)
    \o <<"Return ONLY valid JSON:", "Return ONLY JSON.">>

----------------------------------------------------------------------------
(* State *)

VARIABLES
    text,      \* the response handed to a parser
    doc,       \* the JSON document the response was written from (None: none)
    wrap,      \* how the response carries it: a member of Wraps, or "raw"
    pre,       \* the prose before the document
    op,        \* the parser applied to text ("idle": none yet)
    result,    \* what it returned
    pc,        \* where generate_test_suite stands: "idle", the stage about
               \* to run, "final", "returned" or "raised"
    flags,     \* generate_gherkin, generate_selenium, generate_playwright
    progress_callback,  \* whether the caller gave a callback
    callback_raises,    \* the stage tags of the events the callback raises on
    total_steps,
    current_step,
    suite,     \* the TestSuite under construction
    events,    \* the progress events delivered to the callback, in order
    calls,     \* the adapter calls made: adapter, stage, response, raised
    outcome,   \* [kind, suite, exc]: the call's return value or exception
    self,      \* the adapter under call: [variant, model, api_token]
    backend,   \* what the backend answers to the successive requests of the call
    acall,     \* the adapter call made: [op, requests, result]
    settings,  \* the global settings object of config/settings.py
    ctor,      \* a TestGenerator under construction
    saves,     \* the settings changes made so far by other callers
    fn,        \* the function applied to arg ("none": none, "idle": none yet)
    arg,       \* its arguments
    val,       \* what it returned
    llm_adapter  \* an LLMAdapter facade: its settings and its _adapter

pvars == <<text, doc, wrap, pre, op, result>>

gvars == <<pc, flags, progress_callback, callback_raises, total_steps, current_step, suite,
           events, calls, outcome>>

avars == <<self, backend, acall>>

cvars == <<settings, ctor, saves>>

fvars == <<fn, arg, val>>

lvars == <<llm_adapter>>

xvars == <<avars, cvars, fvars, lvars>>

vars == <<pvars, gvars, xvars>>

Running == [kind |-> "running", suite |-> EmptySuite, exc |-> NoExc]

\* No generation is under way
GenIdle ==
    /\ pc = "idle"
    /\ flags = [gherkin |-> FALSE, selenium |-> FALSE, playwright |-> FALSE]
    /\ progress_callback = FALSE
    /\ callback_raises = {}
    /\ total_steps = 1
    /\ current_step = 0
    /\ suite = EmptySuite
    /\ events = <<>>
    /\ calls = <<>>
    /\ outcome = Running

\* No parser is under test
ParseIdle ==
    /\ text = <<>>
    /\ doc = NoJson
    /\ wrap = "raw"
    /\ pre = <<>>
    /\ op = "none"
    /\ result = NoJson

\* No adapter is under call
NoCall == [op |-> "none", requests |-> 0, result |-> Returned(<<>>)]

AdapterIdle ==
    /\ self = [variant |-> "none", model |-> <<>>, api_token |-> FALSE]
    /\ backend = <<>>
    /\ acall = NoCall

\* No adapter named by a configuration
NoAdapter == Facade("none", "", <<>>)

\* No configuration loaded
NoSettings ==
    [llm_provider |-> "", ollama_model |-> <<>>, openai_model |-> <<>>,
     ollama_code_model |-> <<>>, use_code_model_for_scripts |-> FALSE]

\* No TestGenerator under construction.  start: the configuration when the
\* constructor was called; read: the configuration get_code_llm_adapter
\* read; probe: what its probe was answered
NoCtor ==
    [pc |-> "none", start |-> NoSettings, llm |-> NoAdapter, code_llm |-> NoAdapter,
     read |-> NoSettings, probe |-> <<>>, exc |-> NoError]

\* No generator is under construction
ConfigIdle ==
    /\ settings = NoSettings
    /\ ctor = NoCtor
    /\ saves = 0

\* No facade.  shared: self.settings is the object get_settings() returns;
\* own: the Settings object handed to the constructor otherwise; adapter:
\* the variant _adapter refers to; exc: what the last construction or refresh raised;
\* named, dispatched: what get_provider_name() answered and the provider of
\* the variant generate() went to, when last asked
NoFacade ==
    [pc |-> "none", shared |-> FALSE, own |-> NoSettings, adapter |-> NoAdapter,
     exc |-> NoError, named |-> "", dispatched |-> ""]

FacadeIdle == llm_adapter = NoFacade

\* No function is under application
FunctionIdle ==
    /\ fn = "none"
    /\ arg = <<>>
    /\ val = <<>>

----------------------------------------------------------------------------
(* The parsers, each called on a response *)

\* A parser is about to be called on a response: a rendered document, a
\* document in prose or in a fence, or a text without JSON.
InitParse ==
    /\ GenIdle
    /\ FacadeIdle
    /\ AdapterIdle
    /\ ConfigIdle
    /\ FunctionIdle
    /\ op = "idle"
    /\ result = NoJson
    /\ \/ /\ doc \in ManualDocs \cup ScriptDocs \cup OddDocs
          /\ wrap = "plain"
          /\ pre = <<>>
          /\ text = Render(doc)
       \/ /\ doc \in EmbeddedDocs
          /\ wrap \in Wraps
          /\ pre \in Proses
          /\ \E post \in Proses : text = pre \o Wrapped(wrap, Render(doc)) \o post
       \/ /\ doc = NoJson
          /\ wrap = "raw"
          /\ pre = <<>>
          /\ text \in GherkinTexts \cup CodeTexts

CallExtractJson ==
    /\ op = "idle"
    /\ op' = "_extract_json"
    /\ result' = ExtractJson(text)
    /\ UNCHANGED <<text, doc, wrap, pre, gvars, xvars>>

CallParseManualTests ==
    /\ op = "idle"
    /\ op' = "_parse_manual_tests"
    /\ result' = ParseManualTests(text)
    /\ UNCHANGED <<text, doc, wrap, pre, gvars, xvars>>

CallParseGherkinScripts ==
    /\ op = "idle"
    /\ op' = "_parse_gherkin_scripts"
    /\ result' = ParseGherkinScripts(text)
    /\ UNCHANGED <<text, doc, wrap, pre, gvars, xvars>>

CallParseAutomationScripts ==
    /\ op = "idle"
    /\ \E script_type \in {"selenium", "playwright"} :
          /\ op' = script_type
          /\ result' = ParseAutomationScripts(text, script_type)
    /\ UNCHANGED <<text, doc, wrap, pre, gvars, xvars>>

NextParse ==
    \/ CallExtractJson
    \/ CallParseManualTests
    \/ CallParseGherkinScripts
    \/ CallParseAutomationScripts

SpecParse == InitParse /\ [][NextParse]_vars

----------------------------------------------------------------------------
(* The adapters, each called against a backend *)

\* The longest response text, in slices of chunk_size
MaxChunks == 2

TextLens == {0, 1, ChunkSize, ChunkSize + 1, MaxChunks * ChunkSize + 1}

\* Model names: "qw:7", "cl", "cl:7", "xqw"
ModelNames == {<<"q", "w", ":", "7">>, <<"c", "l">>}

NameLists ==
    {<< <<"q", "w", ":", "7">> >>, << <<"c", "l", ":", "7">>, <<"x", "q", "w">> >>}

\* What a server can answer to a request made through requests
HttpOutcomes ==
    {Response(200, TextOfLen(n), <<>>, TRUE) : n \in TextLens}
    \cup {Response(200, <<>>, names, TRUE) : names \in NameLists}
    \cup {Response(200, <<>>, <<>>, FALSE)}
    \cup {Response(status, <<>>, <<>>, TRUE) : status \in {403, 500}}
    \cup {Raises(exc) : exc \in {"ReadTimeout", "ConnectTimeout", "requests.ConnectionError"}}

\* What a call of a vendor's client can come to: the text, or an exception
\* of the client library
SdkOutcomes ==
    {Response(200, TextOfLen(n), <<>>, TRUE) : n \in TextLens}
    \cup {Raises(exc) : exc \in {"ImportError", "APIConnectionError", "APITimeoutError",
                                 "APIStatusError"}}

\* What an in-process runtime can come to: the text (status 200: a device
\* is there), or an exception of the import or of the runtime
LocalOutcomes ==
    {Response(200, TextOfLen(n), <<>>, TRUE) : n \in TextLens}
    \cup {Response(0, <<>>, <<>>, TRUE)}
    \cup {Raises(exc) : exc \in {"ImportError", "RuntimeError"}}

OutcomesFor(variant) ==
    IF variant \in HttpVariants THEN HttpOutcomes
    ELSE IF variant \in SdkVariants THEN SdkOutcomes
    ELSE LocalOutcomes

\* The most requests one call issues
MaxRequests == 2

Backends(variant) == [1..MaxRequests -> OutcomesFor(variant)]

Adapters ==
    {[variant |-> "ollama", model |-> m, api_token |-> FALSE] : m \in ModelNames}
    \cup {[variant |-> v, model |-> <<"q", "w">>, api_token |-> t] :
            v \in Variants \ {"ollama"}, t \in BOOLEAN}

\* The sizes of the pieces a streaming backend sends
Wires == {1, ChunkSize + 10}

InitAdapter ==
    /\ ParseIdle
    /\ GenIdle
    /\ FacadeIdle
    /\ ConfigIdle
    /\ FunctionIdle
    /\ self \in Adapters
    /\ backend \in Backends(self.variant)
    /\ acall = NoCall

CallGenerate ==
    /\ self.variant \in Variants
    /\ \E d \in {Generate(self.variant, self.api_token, backend)} :
          acall' = [op |-> "generate", requests |-> d.requests, result |-> d.result]
    /\ UNCHANGED <<self, backend, pvars, gvars, cvars, fvars, lvars>>

CallGenerateStream ==
    /\ self.variant \in Variants
    /\ \E wire \in Wires :
       \E d \in {GenerateStream(self.variant, self.api_token, backend, wire)} :
          acall' = [op |-> "generate_stream", requests |-> d.requests, result |-> d.result]
    /\ UNCHANGED <<self, backend, pvars, gvars, cvars, fvars, lvars>>

CallIsAvailable ==
    /\ self.variant \in Variants
    /\ \E d \in {IsAvailable(self.variant, self.model, self.api_token, backend)} :
          acall' = [op |-> "is_available", requests |-> d.requests, result |-> d.result]
    /\ UNCHANGED <<self, backend, pvars, gvars, cvars, fvars, lvars>>

CallGetModels ==
    /\ self.variant \in Variants
    /\ \E d \in {GetModels(self.variant, backend)} :
          acall' = [op |-> "get_models", requests |-> d.requests, result |-> d.result]
    /\ UNCHANGED <<self, backend, pvars, gvars, cvars, fvars, lvars>>

NextAdapter ==
    \/ CallGenerate
    \/ CallGenerateStream
    \/ CallIsAvailable
    \/ CallGetModels

SpecAdapter == InitAdapter /\ [][NextAdapter]_vars

----------------------------------------------------------------------------
(* TestGenerator.__init__ against the global settings *)

\* The configurations: the providers and one value that names none
SettingsSpace ==
    [llm_provider : LLMProviders \cup {"azure"},
     ollama_model : ModelNames,
     openai_model : {<<"g", "4">>},
     ollama_code_model : {<<"c", "l", ":", "7">>},
     use_code_model_for_scripts : BOOLEAN]

\* What the listing of installed models answers to the probe
ProbeOutcomes ==
    {Response(200, <<>>, names, TRUE) : names \in NameLists}
    \cup {Response(500, <<>>, <<>>, TRUE), Raises("requests.ConnectionError")}

\* The most settings changes by other callers
MaxSaves == 1

InitConfig ==
    /\ ParseIdle
    /\ GenIdle
    /\ FacadeIdle
    /\ AdapterIdle
    /\ FunctionIdle
    /\ settings \in SettingsSpace
    /\ ctor = NoCtor
    /\ saves = 0

\* TestGenerator(llm_adapter): a caller that hands in a facade built it from
\* the configuration of the moment
Construct ==
    /\ ctor.pc = "none"
    /\ \E given \in BOOLEAN :
          IF given /\ settings.llm_provider \in LLMProviders
          THEN ctor' = [ctor EXCEPT !.pc = "code_llm", !.start = settings,
                                    !.llm = InitializeAdapter(settings).facade]
          ELSE ctor' = [ctor EXCEPT !.pc = "llm", !.start = settings]
    /\ UNCHANGED <<settings, saves, pvars, gvars, avars, fvars, lvars>>

\* self.llm = llm_adapter or get_llm_adapter()
BuildLlm ==
    /\ ctor.pc = "llm"
    /\ \E b \in {InitializeAdapter(settings)} :
          IF b.exc = NoError
          THEN ctor' = [ctor EXCEPT !.pc = "code_llm", !.llm = b.facade]
          ELSE ctor' = [ctor EXCEPT !.pc = "raised", !.exc = b.exc]
    /\ UNCHANGED <<settings, saves, pvars, gvars, avars, fvars, lvars>>

\* self.code_llm = get_code_llm_adapter()
BuildCodeLlm ==
    /\ ctor.pc = "code_llm"
    /\ \E o \in ProbeOutcomes :
       \E b \in {GetCodeLlmAdapter(settings, <<o>>)} :
          IF b.exc = NoError
          THEN ctor' = [ctor EXCEPT !.pc = "settings", !.code_llm = b.facade,
                                    !.read = settings, !.probe = <<o>>]
          ELSE ctor' = [ctor EXCEPT !.pc = "raised", !.exc = b.exc,
                                    !.read = settings, !.probe = <<o>>]
    /\ UNCHANGED <<settings, saves, pvars, gvars, avars, fvars, lvars>>

\* self.settings = get_settings()
ReadSettings ==
    /\ ctor.pc = "settings"
    /\ ctor' = [ctor EXCEPT !.pc = "done"]
    /\ UNCHANGED <<settings, saves, pvars, gvars, avars, fvars, lvars>>

\* Another caller changes the settings: the object get_settings() returns is
\* shared, app.py assigns its fields and calls save_settings
SaveSettings ==
    /\ saves < MaxSaves
    /\ saves' = saves + 1
    /\ \E new \in SettingsSpace :
          /\ new # settings
          /\ settings' = new
    /\ UNCHANGED <<ctor, pvars, gvars, avars, fvars, lvars>>

NextConfig ==
    \/ Construct
    \/ BuildLlm
    \/ BuildCodeLlm
    \/ ReadSettings
    \/ SaveSettings

SpecConfig == InitConfig /\ [][NextConfig]_vars

----------------------------------------------------------------------------
(* One LLMAdapter facade against the global settings *)

InitFacade ==
    /\ ParseIdle
    /\ GenIdle
    /\ AdapterIdle
    /\ FunctionIdle
    /\ FacadeIdle
    /\ settings \in SettingsSpace
    /\ ctor = NoCtor
    /\ saves = 0

\* LLMAdapter(settings): with no settings given the facade keeps the global
\* object; a constructor that raises leaves no facade
NewLLMAdapter ==
    /\ llm_adapter.pc = "none"
    /\ \E given \in {NoSettings} \cup SettingsSpace :
          \E r \in {InitializeAdapter(IF given = NoSettings THEN settings ELSE given)} :
             llm_adapter' = [pc |-> IF r.exc = NoError THEN "built" ELSE "failed",
                             shared |-> given = NoSettings, own |-> given,
                             adapter |-> r.facade, exc |-> r.exc,
                             named |-> "", dispatched |-> ""]
    /\ UNCHANGED <<settings, ctor, saves, pvars, gvars, avars, fvars>>

\* facade.refresh()
CallRefresh ==
    /\ llm_adapter.pc = "built"
    /\ llm_adapter' = [Refresh(llm_adapter, settings) EXCEPT !.named = "", !.dispatched = ""]
    /\ UNCHANGED <<settings, ctor, saves, pvars, gvars, avars, fvars>>

\* facade.get_provider_name(), and the variant facade.generate() goes to
CallGetProviderName ==
    /\ llm_adapter.pc = "built"
    /\ llm_adapter' = [llm_adapter EXCEPT !.named = GetProviderName(llm_adapter, settings),
                                          !.dispatched = llm_adapter.adapter.provider]
    /\ UNCHANGED <<settings, ctor, saves, pvars, gvars, avars, fvars>>

NextFacade ==
    \/ NewLLMAdapter
    \/ CallRefresh
    \/ CallGetProviderName
    \/ SaveSettings

SpecFacade == InitFacade /\ [][NextFacade]_vars

----------------------------------------------------------------------------
(* The prompt builders, each applied to injected texts *)

\* How far an injected text runs over the cap of its field
MaxExcess == 1

\* A text of n characters c
Filled(c, n) == [i \in 1..n |-> c]

\* Injected texts around a cap: empty, one character, the cap, beyond it
TextsAround(c, cap) == {Filled(c, n) : n \in {0, 1, cap - 1, cap, cap + MaxExcess}}

InitPrompt ==
    /\ ParseIdle
    /\ GenIdle
    /\ FacadeIdle
    /\ AdapterIdle
    /\ ConfigIdle
    /\ fn = "idle"
    /\ val = <<>>
    /\ \/ arg \in [stage : {"manual"},
                    requirements : TextsAround("r", RequirementsCap),
                    client_context : TextsAround("c", ContextCap) \cup {Filled(" ", 2)},
                    summary : {<<>>}]
       \/ arg \in [stage : {"gherkin", "selenium", "playwright"},
                    requirements : TextsAround("t", ManualTestsCap),
                    client_context : {<<>>},
                    summary : TextsAround("s", SummaryCap)]

CallGetManualTestPrompt ==
    /\ fn = "idle"
    /\ arg.stage = "manual"
    /\ \E e, n, b \in BOOLEAN :
          val' = GetManualTestPrompt(arg.requirements, arg.client_context, e, n, b)
    /\ fn' = "get_manual_test_prompt"
    /\ UNCHANGED <<arg, pvars, gvars, avars, cvars, lvars>>

CallGetGherkinPrompt ==
    /\ fn = "idle"
    /\ arg.stage = "gherkin"
    /\ val' = GetGherkinPrompt(arg.requirements, arg.summary)
    /\ fn' = "get_gherkin_prompt"
    /\ UNCHANGED <<arg, pvars, gvars, avars, cvars, lvars>>

CallGetSeleniumPrompt ==
    /\ fn = "idle"
    /\ arg.stage = "selenium"
    /\ val' = GetSeleniumPrompt(arg.requirements, arg.summary)
    /\ fn' = "get_selenium_prompt"
    /\ UNCHANGED <<arg, pvars, gvars, avars, cvars, lvars>>

CallGetPlaywrightPrompt ==
    /\ fn = "idle"
    /\ arg.stage = "playwright"
    /\ val' = GetPlaywrightPrompt(arg.requirements, arg.summary)
    /\ fn' = "get_playwright_prompt"
    /\ UNCHANGED <<arg, pvars, gvars, avars, cvars, lvars>>

NextPrompt ==
    \/ CallGetManualTestPrompt
    \/ CallGetGherkinPrompt
    \/ CallGetSeleniumPrompt
    \/ CallGetPlaywrightPrompt

SpecPrompt == InitPrompt /\ [][NextPrompt]_vars

----------------------------------------------------------------------------
(* The dataclasses, each taken to a dict and back *)

\* Values the program builds: the steps, test cases and scripts the
\* parsers return for the responses above, and the suites made of them
ParsedTests == {ParseManualTests(r) : r \in ManualResponses}

ParsedScripts ==
    {ParseGherkinScripts(r) : r \in GherkinResponses}
    \cup {ParseAutomationScripts(r, t) : r \in CodeResponses, t \in {"selenium", "playwright"}}

RecordTests ==
    {MapManualRecord(rec, 0).test : rec \in {r \in ManualRecords : MapManualRecord(r, 0).ok}}

ModelValues ==
    [cls : {"ManualTestCase"}, x : RecordTests \cup {PlaceholderTest}]
    \cup [cls : {"TestStep"},
          x : UNION {{tc.test_steps[i] : i \in 1..Len(tc.test_steps)} : tc \in RecordTests}]
    \cup [cls : {"AutomationScript"},
          x : UNION {{ss[i] : i \in 1..Len(ss)} : ss \in ParsedScripts}]
    \cup [cls : {"TestSuite"},
          x : {TestSuite(Str("A"), Str(""), m, g, s, s, Str(""), Str("B"), Str("2"))
                 : m \in ParsedTests, g \in ParsedScripts, s \in ParsedScripts}]

InitModels ==
    /\ ParseIdle
    /\ GenIdle
    /\ FacadeIdle
    /\ AdapterIdle
    /\ ConfigIdle
    /\ fn = "idle"
    /\ val = <<>>
    /\ arg \in ModelValues

\* x.to_dict()
CallToDict ==
    /\ fn = "idle"
    /\ val' = ToDict(arg.cls, arg.x)
    /\ fn' = "to_dict"
    /\ UNCHANGED <<arg, pvars, gvars, avars, cvars, lvars>>

\* json.loads(json.dumps(data)) of the dict
CallJson ==
    /\ fn = "to_dict"
    /\ \E r \in {ThroughJson(val)} :
          /\ r.ok
          /\ val' = r.val
    /\ fn' = "json"
    /\ UNCHANGED <<arg, pvars, gvars, avars, cvars, lvars>>

\* cls.from_dict(data) of the dict, or of the dict read back from JSON
CallFromDict ==
    /\ fn \in {"to_dict", "json"}
    /\ val' = FromDict(arg.cls, val)
    /\ fn' = IF fn = "json" THEN "from_json" ELSE "from_dict"
    /\ UNCHANGED <<arg, pvars, gvars, avars, cvars, lvars>>

NextModels ==
    \/ CallToDict
    \/ CallJson
    \/ CallFromDict

SpecModels == InitModels /\ [][NextModels]_vars

----------------------------------------------------------------------------
(* One call of generate_test_suite *)

Init == ParseIdle /\ GenIdle /\ AdapterIdle /\ ConfigIdle /\ FunctionIdle /\ FacadeIdle

\* A stage sequence that runs every stage, requested or not
NextStageUnconditional(stage, f) ==
    CASE stage = "manual" -> "gherkin"
      [] stage = "gherkin" -> "selenium"
      [] stage = "selenium" -> "playwright"
      [] OTHER -> "final"

\* The stage that runs after `stage`: the next requested one, else the
\* final summary
NextStage(stage, f) ==
    IF stage = "manual" /\ f.gherkin THEN "gherkin"
    ELSE IF stage \in {"manual", "gherkin"} /\ f.selenium THEN "selenium"
    ELSE IF stage \in {"manual", "gherkin", "selenium"} /\ f.playwright THEN "playwright"
    ELSE "final"

\* Every stage billed to the main adapter
CallMainAdapter(adapter, stage, response, exc) ==
    [adapter |-> "llm", stage |-> stage, response |-> response, raised |-> exc]

Call(adapter, stage, response, exc) ==
    [adapter |-> adapter, stage |-> stage, response |-> response, raised |-> exc]

\* The except clause of generate_test_suite: the error event, then raise.
\* A callback that raises while it handles the error event replaces the
\* exception under way by its own.
Raise(evs, e) ==
    /\ events' = ReportError(evs, progress_callback, e)
    /\ outcome' = [kind |-> "raised", suite |-> EmptySuite,
                   exc |-> IF progress_callback /\ "error" \in callback_raises
                           THEN CallbackError ELSE e]
    /\ pc' = "raised"
    /\ UNCHANGED <<flags, progress_callback, callback_raises, total_steps, current_step>>

\* The caller calls generate_test_suite: the suite is initialised and the
\* number of steps counted.  The callback, when one is given, is one of
\* `behaviours`: the stage tags of the events it raises on.
Enter(behaviours) ==
    /\ pc = "idle"
    /\ \E g \in BOOLEAN, s \in BOOLEAN, p \in BOOLEAN :
          /\ flags' = [gherkin |-> g, selenium |-> s, playwright |-> p]
          /\ total_steps' = 1 + (IF g THEN 1 ELSE 0) + (IF s THEN 1 ELSE 0)
                              + (IF p THEN 1 ELSE 0)
    /\ progress_callback' \in BOOLEAN
    /\ callback_raises' \in (IF progress_callback' THEN behaviours ELSE {{}})
    /\ current_step' = 0
    /\ suite' = EmptySuite
    /\ pc' = "manual"
    /\ UNCHANGED <<events, calls, outcome, pvars, xvars>>

\* generate_test_suite called with a callback that returns from every event
GenerateTestSuite == Enter({{}})

\* Stage 1: manual test cases (always)
ManualStage ==
    /\ pc = "manual"
    /\ LET before == <<StepProgress(current_step, total_steps, "manual", "reading", 0),
                       StepProgress(current_step, total_steps, "manual", "analyzing", 15),
                       StepProgress(current_step, total_steps, "manual", "sending", 25)>>
       IN  IF CallbackRaised(progress_callback, callback_raises, before)
           THEN /\ Raise(ReportProgress(events, progress_callback,
                                        Delivered(callback_raises, before)), CallbackError)
                /\ UNCHANGED <<suite, calls>>
           ELSE
           \/ \E e \in AdapterErrors :
                /\ calls' = Append(calls, Call("llm", "manual", <<>>, e))
                /\ Raise(ReportProgress(events, progress_callback, before), e)
                /\ UNCHANGED suite
           \/ \E response \in ManualResponses :
                \E manual_tests \in {ParseManualTests(response)} :
                LET after == <<StepProgress(current_step, total_steps, "manual",
                                            "generated", 90)>>
                    warning == IF manual_tests = <<>>
                               THEN <<StepProgress(current_step, total_steps, "manual",
                                                   "warning", 100)>>
                               ELSE <<>>
                IN  /\ calls' = Append(calls, Call("llm", "manual", response, NoExc))
                    /\ suite' = [suite EXCEPT !.manual_tests = manual_tests]
                    /\ events' = ReportProgress(events, progress_callback,
                                                before \o after \o warning)
                    /\ current_step' = 1
                    /\ pc' = NextStage("manual", flags)
                    /\ UNCHANGED <<flags, progress_callback, callback_raises,
                                   total_steps, outcome>>
    /\ UNCHANGED <<pvars, xvars>>

\* Stage 2: gherkin feature files (if requested)
GherkinStage ==
    /\ pc = "gherkin"
    /\ LET before == <<StepProgress(current_step, total_steps, "gherkin", "preparing", 0),
                       StepProgress(current_step, total_steps, "gherkin", "sending", 20)>>
       IN  IF CallbackRaised(progress_callback, callback_raises, before)
           THEN /\ Raise(ReportProgress(events, progress_callback,
                                        Delivered(callback_raises, before)), CallbackError)
                /\ UNCHANGED <<suite, calls>>
           ELSE
           \/ \E e \in AdapterErrors :
                /\ calls' = Append(calls, Call("llm", "gherkin", <<>>, e))
                /\ Raise(ReportProgress(events, progress_callback, before), e)
                /\ UNCHANGED suite
           \/ \E response \in GherkinResponses :
                \E gherkin_scripts \in {ParseGherkinScripts(response)} :
                LET total_scenarios == SumScenarioCounts(gherkin_scripts, 1, 0)
                    after == <<StepProgress(current_step, total_steps, "gherkin",
                                            IF gherkin_scripts # <<>> THEN "generated"
                                            ELSE "returned empty", 95)>>
                IN  /\ calls' = Append(calls, Call("llm", "gherkin", response, NoExc))
                    /\ suite' = [suite EXCEPT !.gherkin_scripts = gherkin_scripts]
                    /\ IF gherkin_scripts # <<>> /\ ~total_scenarios.ok
                       THEN Raise(ReportProgress(events, progress_callback, before),
                                  SumTypeError)
                       ELSE /\ events' = ReportProgress(events, progress_callback,
                                                        before \o after)
                            /\ current_step' = current_step + 1
                            /\ pc' = NextStage("gherkin", flags)
                            /\ UNCHANGED <<flags, progress_callback, callback_raises,
                                           total_steps, outcome>>
    /\ UNCHANGED <<pvars, xvars>>

\* Stages 3 and 4: the automation scripts of one language (if requested)
ScriptStage(stage) ==
    /\ pc = stage
    /\ LET before == <<StepProgress(current_step, total_steps, stage, "preparing", 0),
                       StepProgress(current_step, total_steps, stage, "sending", 20)>>
       IN  IF CallbackRaised(progress_callback, callback_raises, before)
           THEN /\ Raise(ReportProgress(events, progress_callback,
                                        Delivered(callback_raises, before)), CallbackError)
                /\ UNCHANGED <<suite, calls>>
           ELSE
           \/ \E e \in AdapterErrors :
                /\ calls' = Append(calls, Call("code_llm", stage, <<>>, e))
                /\ Raise(ReportProgress(events, progress_callback, before), e)
                /\ UNCHANGED suite
           \/ \E response \in CodeResponses :
                \E scripts \in {ParseAutomationScripts(response, stage)} :
                LET after == <<StepProgress(current_step, total_steps, stage,
                                            IF scripts # <<>> THEN "generated"
                                            ELSE "returned empty", 95)>>
                IN  /\ calls' = Append(calls, Call("code_llm", stage, response, NoExc))
                    /\ suite' = IF stage = "selenium"
                                THEN [suite EXCEPT !.selenium_scripts = scripts]
                                ELSE [suite EXCEPT !.playwright_scripts = scripts]
                    /\ events' = ReportProgress(events, progress_callback,
                                                before \o after)
                    /\ current_step' = current_step + 1
                    /\ pc' = NextStage(stage, flags)
                    /\ UNCHANGED <<flags, progress_callback, callback_raises,
                                   total_steps, outcome>>
    /\ UNCHANGED <<pvars, xvars>>

SeleniumStage == ScriptStage("selenium")

PlaywrightStage == ScriptStage("playwright")

\* The final summary, the complete event and `return suite`.  The complete
\* event is reported inside the try: a callback that raises on it takes the
\* call to the except clause.
FinalSummary ==
    /\ pc = "final"
    /\ LET complete == <<GenerationProgress("complete", 100 * total_steps, "complete",
                                            FALSE, NoJson)>>
       IN  IF CallbackRaised(progress_callback, callback_raises, complete)
           THEN Raise(ReportProgress(events, progress_callback, complete), CallbackError)
           ELSE /\ events' = ReportProgress(events, progress_callback, complete)
                /\ outcome' = [kind |-> "returned", suite |-> suite, exc |-> NoExc]
                /\ pc' = "returned"
                /\ UNCHANGED <<flags, progress_callback, callback_raises, total_steps,
                               current_step>>
    /\ UNCHANGED <<suite, calls, pvars, xvars>>

Next ==
    \/ GenerateTestSuite
    \/ ManualStage
    \/ GherkinStage
    \/ SeleniumStage
    \/ PlaywrightStage
    \/ FinalSummary

Spec == Init /\ [][Next]_vars

\* The callbacks a caller may give: one that returns from every event, and
\* ones that raise while they handle the events of some tags
CallbackBehaviours ==
    {{}, {"manual"}, {"gherkin"}, {"selenium"}, {"playwright"}, {"complete"},
     {"error"}, {"complete", "error"}, {"manual", "error"}}

\* generate_test_suite called with any of these callbacks
GenerateTestSuiteWithCallback == Enter(CallbackBehaviours)

NextCallback ==
    \/ GenerateTestSuiteWithCallback
    \/ ManualStage
    \/ GherkinStage
    \/ SeleniumStage
    \/ PlaywrightStage
    \/ FinalSummary

SpecCallback == Init /\ [][NextCallback]_vars

----------------------------------------------------------------------------
(* Properties of generate_test_suite (specification Spec) *)

Last(seq) == seq[Len(seq)]

\* The call has ended: it returned or it raised
Ended == pc \in {"returned", "raised"}

\* Every adapter call made so far returned
AllReturned == \A i \in 1..Len(calls) : calls[i].raised = NoExc

\* The last adapter call raised
AdapterRaised == calls # <<>> /\ Last(calls).raised # NoExc

ErrorEvents == {i \in 1..Len(events) : events[i].stage = "error"}

\* C1: when the adapter's generate raises in a stage, the call ends by
\* raising that same exception and returns no suite; the callback, when one
\* was given, has received exactly one error event, it is the last event, its
\* completion flag is set and its error text is the failure description.
C1_AdapterFailureReported ==
    AdapterRaised =>
        /\ pc = "raised"
        /\ outcome.kind = "raised"
        /\ outcome.exc = Last(calls).raised
        /\ progress_callback =>
              /\ Cardinality(ErrorEvents) = 1
              /\ Last(events).stage = "error"
              /\ Last(events).completed
              /\ Last(events).error = Str(StrOf(Last(calls).raised))

\* The code adapter raises in the selenium stage after two stages went well
C1_Witness ==
    /\ AdapterRaised
    /\ progress_callback
    /\ Len(calls) = 3
    /\ Last(calls).stage = "selenium"
    /\ Last(calls).raised.type = "ConnectionError"
    /\ Len(events) > 1

StageRank(stage) ==
    CASE stage = "manual" -> 1
      [] stage = "gherkin" -> 2
      [] stage = "selenium" -> 3
      [] stage = "playwright" -> 4
      [] stage = "complete" -> 5
      [] stage = "error" -> 6
      [] OTHER -> 0

\* C2: the stage tags of the delivered events follow the order manual,
\* gherkin, selenium, playwright, complete (error being terminal): the first
\* event is tagged manual, no event of an earlier stage follows one of a
\* later stage, and no event is tagged with a stage that was not requested.
C2_StageOrder ==
    /\ events # <<>> => events[1].stage = "manual"
    /\ \A i \in 1..Len(events) : StageRank(events[i].stage) > 0
    /\ \A i \in 1..Len(events) : \A j \in i..Len(events) :
          StageRank(events[i].stage) <= StageRank(events[j].stage)
    /\ \A i \in 1..Len(events) :
          /\ events[i].stage = "gherkin" => flags.gherkin
          /\ events[i].stage = "selenium" => flags.selenium
          /\ events[i].stage = "playwright" => flags.playwright

\* A run with gherkin and playwright but without selenium has returned
C2_Witness ==
    /\ pc = "returned"
    /\ progress_callback
    /\ flags = [gherkin |-> TRUE, selenium |-> FALSE, playwright |-> TRUE]
    /\ \E i \in 1..Len(events) : events[i].stage = "gherkin"
    /\ \E i \in 1..Len(events) : events[i].stage = "playwright"
    /\ Last(events).stage = "complete"

\* What the parser of a call's stage makes of the response
Parsed(c) ==
    CASE c.stage = "manual" -> ParseManualTests(c.response)
      [] c.stage = "gherkin" -> ParseGherkinScripts(c.response)
      [] OTHER -> ParseAutomationScripts(c.response, c.stage)

\* The list of a suite that holds a stage's artifacts
SuiteList(su, stage) ==
    CASE stage = "manual" -> su.manual_tests
      [] stage = "gherkin" -> su.gherkin_scripts
      [] stage = "selenium" -> su.selenium_scripts
      [] OTHER -> su.playwright_scripts

Requested(stage) ==
    CASE stage = "manual" -> TRUE
      [] stage = "gherkin" -> flags.gherkin
      [] stage = "selenium" -> flags.selenium
      [] OTHER -> flags.playwright

\* C3: in a call whose adapter calls all returned, a stage whose parser
\* yields zero artifacts brings no error event, every requested stage still
\* runs, the call ends with the complete event and returns a suite whose
\* list for that stage is empty.
C3_ZeroArtifactsNotAnError ==
    (Ended /\ AllReturned) =>
        \A i \in 1..Len(calls) :
            Parsed(calls[i]) = <<>> =>
                /\ ErrorEvents = {}
                /\ \A st \in {"gherkin", "selenium", "playwright"} :
                      Requested(st) => \E j \in 1..Len(calls) : calls[j].stage = st
                /\ progress_callback => Last(events).stage = "complete"
                /\ outcome.kind = "returned"
                /\ SuiteList(outcome.suite, calls[i].stage) = <<>>

\* C4: when every adapter call returned, whatever text it returned, the call
\* raises nothing, delivers no error event, ends with the complete event and
\* returns a suite.
C4_MalformedOutputNeverFails ==
    (Ended /\ AllReturned) =>
        /\ pc = "returned"
        /\ outcome.kind = "returned"
        /\ ErrorEvents = {}
        /\ progress_callback => (events # <<>> /\ Last(events).stage = "complete")

\* C10: when every adapter call returned, the fractions of successive events
\* never decrease and the last event is the complete event with fraction 1.0
\* (the numerator 100 * total_steps).
C10_ProgressMonotone ==
    (Ended /\ AllReturned /\ progress_callback) =>
        /\ \A i \in 1..(Len(events) - 1) : events[i].progress <= events[i + 1].progress
        /\ events # <<>>
        /\ Last(events).stage = "complete"
        /\ Last(events).progress = 100 * total_steps

----------------------------------------------------------------------------
(* Properties of the parsers (specification SpecParse) *)

\* The response is exactly a JSON document of the manual-test schema
SchemaResponse ==
    /\ wrap = "plain"
    /\ doc \in {Obj(<<<<"test_cases", Arr(l)>>>>) : l \in SeqsUpTo(SchemaRecords, MaxRecords)}

\* The actions of the steps of a record of the document, in order
RecordActions(rec) ==
    [j \in 1..Len(Get(rec, "test_steps", Arr(<<>>)).v) |->
        Get(Get(rec, "test_steps", Arr(<<>>)).v[j], "action", Null)]

\* C5: for a response that is valid JSON of the manual-test schema,
\* _parse_manual_tests returns one ManualTestCase per record of test_cases,
\* in order, each with the record's test_id, priority and steps in order.
C5_OneTestPerRecord ==
    (op = "_parse_manual_tests" /\ SchemaResponse) =>
        LET records == Get(doc, "test_cases", Arr(<<>>)).v
        IN  /\ Len(result) = Len(records)
            /\ \A i \in 1..Len(records) :
                  /\ result[i].test_id = Get(records[i], "test_id", Null)
                  /\ result[i].priority = Get(records[i], "priority", Null)
                  /\ [j \in 1..Len(result[i].test_steps) |->
                          result[i].test_steps[j].action] = RecordActions(records[i])

\* C6: for a response that holds one JSON object, fenced or within prose of
\* any tokens (braces included), _extract_json returns that object.
C6_EmbeddedObjectRecovered ==
    (op = "_extract_json" /\ doc \in EmbeddedDocs /\ wrap \in Wraps) => result = doc

\* The extracted value has no test_cases list
NoUsableTestCases(json_data) ==
    \/ json_data = NoJson
    \/ ~IsDict(json_data)
    \/ ~HasKey(json_data, "test_cases")
    \/ ~IsList(Get(json_data, "test_cases", Null))

\* C7: for a response with no recoverable JSON, or JSON without a usable
\* test_cases list, _parse_manual_tests returns exactly the one placeholder
\* test case that asks for a manual review.
C7_PlaceholderWhenNothingParsed ==
    (op = "_parse_manual_tests" /\ NoUsableTestCases(ExtractJson(text))) =>
        /\ Len(result) = 1
        /\ result[1].test_name = Str("Manual Review Required")

\* A Feature: keyword with a scenario keyword somewhere after it
FeatureWithScenario(toks) ==
    \E i \in 1..Len(toks) : \E j \in i..Len(toks) :
        toks[i] = "Feature:" /\ toks[j] \in ScenarioWords

\* Two fences with a characteristic token of the script type between them
FencedWithIndicator(toks, script_type) ==
    \E i \in 1..Len(toks) : \E j \in i..Len(toks) : \E p \in i..j :
        /\ toks[i] = "F"
        /\ toks[j] = "F"
        /\ toks[p] \in (IF script_type = "selenium" THEN {"import"}
                        ELSE {"import", "test("})

\* C8: a BDD or automation-script response with no recoverable JSON and no
\* block the fallback can recover (no feature with a scenario, no fenced
\* block with a characteristic token) parses to the empty list.
C8_NothingRecoverableIsEmpty ==
    /\ (op = "_parse_gherkin_scripts" /\ ExtractJson(text) = NoJson
          /\ ~FeatureWithScenario(text)) => result = <<>>
    /\ (op \in {"selenium", "playwright"} /\ ExtractJson(text) = NoJson
          /\ ~FencedWithIndicator(text, op)) => result = <<>>

\* A fenced block that holds only a comment was parsed for selenium
C8_Witness ==
    /\ op = "selenium"
    /\ text = <<"F", "python", "nl", "#c", "nl", "F">>
    /\ result = <<>>

\* The response is exactly a JSON object with one list of records
ListResponse(key) ==
    /\ wrap = "plain"
    /\ IsDict(doc)
    /\ Len(doc.v) = 1
    /\ doc.v[1][1] = key
    /\ IsList(doc.v[1][2])

\* C9: in every structured stage a record whose mapping raises is skipped
\* and every other record of the list, before or after it, is mapped and
\* returned.
C9_RaisingRecordSkipped ==
    /\ (op = "_parse_manual_tests" /\ ListResponse("test_cases")) =>
          Len(result) = Cardinality({i \in 1..Len(doc.v[1][2].v) :
                                        MapManualRecord(doc.v[1][2].v[i], 0).ok})
    /\ (op \in {"_parse_gherkin_scripts", "selenium", "playwright"}
          /\ (ListResponse("feature_files") \/ ListResponse("scripts"))) =>
          \A i \in 1..Len(doc.v[1][2].v) :
              LET rec == doc.v[1][2].v[i]
              IN  (IsDict(rec) /\ Truthy(Get(rec, "content", Str("")))) =>
                      \E j \in 1..Len(result) :
                          result[j].content = Get(rec, "content", Str(""))

\* C19: in every ManualTestCase the parser returns, the step numbers are
\* 1, 2, ..., n in list order, whatever step_number values the records
\* carried.
C19_StepNumbersContiguous ==
    op = "_parse_manual_tests" =>
        \A i \in 1..Len(result) :
            \A j \in 1..Len(result[i].test_steps) :
                result[i].test_steps[j].step_number = Num(j)

\* C20: no two test cases of the list the parser returns carry the same
\* test_id, also when some records take the TC_nnn fallback and others
\* bring their own identifier or are skipped.
C20_TestIdsUnique ==
    op = "_parse_manual_tests" =>
        \A i, j \in 1..Len(result) : i # j => result[i].test_id # result[j].test_id

----------------------------------------------------------------------------
(* Properties of the adapters (specification SpecAdapter) *)

\* The exceptions of the transport and of the client libraries
RawExceptions ==
    {"ReadTimeout", "ConnectTimeout", "requests.ConnectionError", "HTTPError",
     "APIConnectionError", "APITimeoutError", "APIStatusError"}

\* A request that timed out
TimedOut(o) == IsA(o.exc, "Timeout") \/ o.exc = "APITimeoutError"

\* A request that found the network unreachable, got a non-success status
\* or timed out
FailedRequest(o) == o.exc \in RawExceptions \/ (o.exc = "" /\ o.status # 200)

\* The backend fails every request
BackendDown == \A i \in 1..MaxRequests : FailedRequest(backend[i])

GenerateCalled == acall.op \in {"generate", "generate_stream"}

\* C11: generate and generate_stream of every variant report an unreachable
\* network, a non-success status and a timeout as a ConnectionError, and no
\* exception of the transport or of a client library reaches the caller.
C11_FailuresAreConnectionErrors ==
    GenerateCalled =>
        /\ acall.result.kind = "raised" => acall.result.exc.type \notin RawExceptions
        /\ (self.variant \notin LocalVariants /\ BackendDown) =>
              /\ acall.result.kind = "raised"
              /\ acall.result.exc.type = "ConnectionError"

\* C12: is_available of every variant and mode never raises; whatever fails
\* inside the probe, the answer is false.
C12_IsAvailableNeverRaises ==
    acall.op = "is_available" =>
        /\ acall.result.kind = "returned"
        /\ backend[1].exc # "" => ~acall.result.flag

\* The variants and modes that have a discovery endpoint
DiscoveryVariants == {"ollama", "vllm_server"}

\* The discovery request failed or its answer cannot be used
DiscoveryFailed == backend[1].exc # "" \/ backend[1].status # 200 \/ ~backend[1].parses

\* The curated lists
CuratedLists == {StaticModels(v) : v \in Variants \ {"ollama"}}

\* C13: get_models never raises; where there is a discovery endpoint a
\* failed discovery gives the empty list, and the curated list is returned
\* only where there is no discovery endpoint.
C13_FailedDiscoveryGivesEmptyList ==
    acall.op = "get_models" =>
        /\ acall.result.kind = "returned"
        /\ (self.variant \in DiscoveryVariants /\ DiscoveryFailed) =>
              acall.result.models = <<>>
        /\ acall.result.models \in CuratedLists => self.variant \notin DiscoveryVariants

\* The variants and modes without incremental output of their own
SlicingVariants == {"hf_api", "hf_local", "vllm_local"}

\* What generate returns against the same backend
FullResponse == Generate(self.variant, self.api_token, backend).result

\* All fragments but the last have the size of the first, the last at most
EqualSlices(fragments) ==
    \A k \in 1..Len(fragments) :
        IF k < Len(fragments) THEN Len(fragments[k]) = Len(fragments[1])
        ELSE Len(fragments[k]) <= Len(fragments[1])

\* C14: when the backend produces a non-empty response, generate_stream
\* yields at least one fragment and the fragments join to the full
\* response; the variants that slice yield equal slices of what generate
\* returns.
C14_StreamJoinsToFullResponse ==
    (acall.op = "generate_stream" /\ FullResponse.kind = "returned"
                                  /\ FullResponse.text # <<>>) =>
        /\ acall.result.kind = "returned"
        /\ acall.result.fragments # <<>>
        /\ Join(acall.result.fragments) = FullResponse.text
        /\ self.variant \in SlicingVariants => EqualSlices(acall.result.fragments)

\* The call issued a request that timed out
SomeRequestTimedOut == \E i \in 1..acall.requests : TimedOut(backend[i])

\* The call failed with a ConnectionError
FailedWithConnectionError ==
    acall.result.kind = "raised" /\ acall.result.exc.type = "ConnectionError"

\* C15 as stated: in every variant, once a request of a generate call has
\* timed out, the call issues no further request and fails with a
\* ConnectionError.
C15_TimeoutNeverRetried ==
    (acall.op = "generate" /\ SomeRequestTimedOut) =>
        /\ TimedOut(backend[acall.requests])
        /\ \A i \in 1..(acall.requests - 1) : ~TimedOut(backend[i])
        /\ FailedWithConnectionError

\* C15, amended: in the Ollama and vLLM server variants a timed-out request
\* is the only request of the generate call, which fails with a
\* ConnectionError; in the router variant a timed-out chat-completion
\* request is followed by exactly one legacy request, and a timed-out
\* legacy request is the last request of the call, which fails with a
\* ConnectionError.
C15_TimeoutNotRepeated ==
    (acall.op = "generate" /\ self.variant \in HttpVariants /\ SomeRequestTimedOut) =>
        IF self.variant = "hf_api"
        THEN /\ acall.requests = 2
             /\ TimedOut(backend[2]) => FailedWithConnectionError
        ELSE /\ acall.requests = 1
             /\ FailedWithConnectionError

\* The chat-completion request of the router timed out, and so did the
\* legacy request made after it
C15_Witness ==
    /\ acall.op = "generate"
    /\ self.variant = "hf_api"
    /\ acall.requests = 2
    /\ TimedOut(backend[1])
    /\ TimedOut(backend[2])
    /\ FailedWithConnectionError

\* An attempt of the router failed: an exception, a non-success status or
\* an empty response
AttemptFailed(o) == Decoded(o).exc # "" \/ o.status # 200 \/ o.text = <<>>

\* The message names the failure of the chat-completion attempt
NamesChat(msg, o) == \E i \in 1..Len(msg) : msg[i] = "Chat Completions: " \o ChatLastError(Decoded(o))

\* The message names the failure of the legacy attempt
NamesLegacy(msg, o) ==
    \E i \in 1..Len(msg) :
        \/ msg[i] = "Legacy API (" \o ToStr(o.status) \o ")"
        \/ msg[i] = "Legacy API: " \o Decoded(o).exc
        \/ o.status = 403 /\ msg[i] = "Access Denied (403) - HuggingFace API"

\* C16: the router makes the chat-completion attempt first and the legacy
\* attempt only if that failed, and when both attempts fail the
\* ConnectionError names the failure of both, whatever the two failures are.
C16_BothFailuresNamed ==
    (acall.op = "generate" /\ self.variant = "hf_api" /\ self.api_token) =>
        /\ acall.requests = IF AttemptFailed(backend[1]) THEN 2 ELSE 1
        /\ (AttemptFailed(backend[1]) /\ AttemptFailed(backend[2])) =>
              /\ FailedWithConnectionError
              /\ NamesChat(acall.result.exc.msg, backend[1])
              /\ NamesLegacy(acall.result.exc.msg, backend[2])

----------------------------------------------------------------------------
(* Properties of the construction (specification SpecConfig) *)

\* get_code_llm_adapter has been called: it returned or raised
CodeFactoryCalled == ctor.probe # <<>>

CodeFactoryRaised == CodeFactoryCalled /\ ctor.pc = "raised"

\* The provider read is Ollama, the flag is set and the probe found the
\* code model installed
CodeModelChosen ==
    /\ ctor.read.llm_provider = "ollama"
    /\ ctor.read.use_code_model_for_scripts
    /\ OllamaIsAvailable(ctor.read.ollama_code_model, ctor.probe).result.flag

\* The facade over the default adapter of the configuration read
DefaultFacade == Facade("default", ctor.read.llm_provider, ModelOf(ctor.read))

\* C17 as stated: get_code_llm_adapter returns a facade bound to the code
\* model exactly when the provider is Ollama, the flag is set and the probe
\* reports the code model installed; in every other case it returns a
\* facade over the default adapter and does not raise.
C17_CodeFacadeOrDefault ==
    CodeFactoryCalled =>
        /\ ~CodeFactoryRaised
        /\ IF CodeModelChosen
           THEN ctor.code_llm = Facade("code", "ollama", ctor.read.ollama_code_model)
           ELSE ctor.code_llm = DefaultFacade

\* C17, amended: the same, except that in the other cases the default
\* facade is returned without raising when the configuration names one of
\* the providers of LLMProvider, and ValueError is raised when it names
\* none of them.
C17_CodeFacadeOrDefaultOfKnownProvider ==
    CodeFactoryCalled =>
        IF CodeModelChosen
        THEN /\ ~CodeFactoryRaised
             /\ ctor.code_llm = Facade("code", "ollama", ctor.read.ollama_code_model)
        ELSE IF ctor.read.llm_provider \in LLMProviders
        THEN /\ ~CodeFactoryRaised
             /\ ctor.code_llm = DefaultFacade
        ELSE /\ CodeFactoryRaised
             /\ ctor.exc.type = "ValueError"

\* The provider is Ollama and the flag is set, the probe failed, and the
\* default facade came back
C17_Witness ==
    /\ CodeFactoryCalled
    /\ ctor.read.llm_provider = "ollama"
    /\ ctor.read.use_code_model_for_scripts
    /\ ctor.probe[1].exc # ""
    /\ ctor.code_llm = DefaultFacade

\* C18: the adapters of one generator come from the configuration of the
\* moment the constructor was called: the main adapter has its provider and
\* model, and the code adapter has the same provider and either the same
\* model or the code model of that configuration.
C18_OneConfigurationSnapshot ==
    ctor.pc \in {"settings", "done"} =>
        /\ ctor.llm = Facade("default", ctor.start.llm_provider, ModelOf(ctor.start))
        /\ ctor.code_llm.provider = ctor.llm.provider
        /\ ctor.code_llm \in {ctor.llm,
                              Facade("code", "ollama", ctor.start.ollama_code_model)}

----------------------------------------------------------------------------
(* Properties of the prompt builders (specification SpecPrompt) *)

\* The characters c of a prompt, in order
Injected(prompt, c) == SelectSeq(prompt, LAMBDA x : x = c)

\* The fixed overhead of a template: the longest prompt it gives for empty
\* texts (one blank-free character of context, so that its heading shows)
ManualOverhead == Len(GetManualTestPrompt(<<>>, <<"c">>, TRUE, TRUE, TRUE)) - 1

ScriptOverhead(builder) ==
    CASE builder = "get_gherkin_prompt" -> Len(GetGherkinPrompt(<<>>, <<>>))
      [] builder = "get_selenium_prompt" -> Len(GetSeleniumPrompt(<<>>, <<>>))
      [] OTHER -> Len(GetPlaywrightPrompt(<<>>, <<>>))

\* C21: a prompt embeds of each injected text only its prefix up to the cap
\* of the field (3000 of requirements and 1000 of client context in the
\* manual prompt, 2000 of manual tests in the others), so a prompt is never
\* longer than the overhead of its template plus the caps of its fields.
C21_PromptFieldsCapped ==
    /\ fn = "get_manual_test_prompt" =>
          /\ Injected(val, "r") = Prefix(arg.requirements, RequirementsCap)
          /\ Injected(val, "c") = IF StripBlanks(arg.client_context) = <<>> THEN <<>>
                                  ELSE Prefix(arg.client_context, ContextCap)
          /\ Len(val) <= ManualOverhead + RequirementsCap + ContextCap
    /\ fn \in {"get_gherkin_prompt", "get_selenium_prompt", "get_playwright_prompt"} =>
          /\ Injected(val, "t") = Prefix(arg.requirements, ManualTestsCap)
          /\ Len(Injected(val, "s")) <= SummaryCap
          /\ Len(val) <= ScriptOverhead(fn) + ManualTestsCap + SummaryCap

\* A manual prompt was built from requirements and a client context that
\* both run over their caps
C21_Witness ==
    /\ fn = "get_manual_test_prompt"
    /\ Len(arg.requirements) > RequirementsCap
    /\ Len(arg.client_context) > ContextCap
    /\ Len(Injected(val, "r")) = RequirementsCap

----------------------------------------------------------------------------
(* Properties of the dataclasses *)

\* a value has come back from from_dict
CameBack == fn \in {"from_dict", "from_json"}

\* every step of the test cases of a value is a TestStep object
StepsAreObjects(cls, x) ==
    CASE cls = "ManualTestCase" ->
           \A i \in 1..Len(x.test_steps) : IsTestStep(x.test_steps[i])
      [] cls = "TestSuite" ->
           \A k \in 1..Len(x.manual_tests) :
              \A i \in 1..Len(x.manual_tests[k].test_steps) :
                 IsTestStep(x.manual_tests[k].test_steps[i])
      [] OTHER -> TRUE

\* C22: a value taken to a dict and back, directly or through JSON text,
\* is a value whose to_dict equals the to_dict of the original, and the
\* steps of its test cases are TestStep objects.
C22_RoundTrip ==
    CameBack =>
        /\ val.ok
        /\ ToDict(arg.cls, val.value) = ToDict(arg.cls, arg.x)
        /\ StepsAreObjects(arg.cls, val.value)

\* a suite with a test case that has steps came back through JSON text
C22_Witness ==
    /\ fn = "from_json"
    /\ arg.cls = "TestSuite"
    /\ val.ok
    /\ \E k \in 1..Len(arg.x.manual_tests) : Len(arg.x.manual_tests[k].test_steps) > 0
    /\ arg.x.gherkin_scripts # <<>>

----------------------------------------------------------------------------
(* Properties of the progress events and the adapter calls of one call *)

\* 1 + the number of optional stages requested
StepsRequested(f) ==
    1 + (IF f.gherkin THEN 1 ELSE 0) + (IF f.selenium THEN 1 ELSE 0)
      + (IF f.playwright THEN 1 ELSE 0)

\* the number of stages that finish before `stage` starts
StagesBefore(stage, f) ==
    CASE stage = "manual" -> 0
      [] stage = "gherkin" -> 1
      [] stage = "selenium" -> 1 + (IF f.gherkin THEN 1 ELSE 0)
      [] stage = "playwright" ->
           1 + (IF f.gherkin THEN 1 ELSE 0) + (IF f.selenium THEN 1 ELSE 0)
      [] OTHER -> StepsRequested(f)

StageTags == {"manual", "gherkin", "selenium", "playwright"}

\* C23: every checkpoint event of a stage reports the fraction
\* min(0.99, completed_stages/total_steps + (1/total_steps) * intra) for an
\* intra-stage fraction in [0, 1], total_steps being 1 + the number of
\* optional stages requested; every event but complete has a fraction in
\* [0, 1), and only complete reports 1.0.  (Fractions are numerators over
\* 100 * total_steps.)
C23_CheckpointFractions ==
    /\ pc # "idle" => total_steps = StepsRequested(flags)
    /\ \A i \in 1..Len(events) :
          /\ events[i].stage \in StageTags =>
                \E intra \in 0..100 :
                   events[i].progress =
                      Min(99 * StepsRequested(flags),
                          100 * StagesBefore(events[i].stage, flags) + intra)
          /\ events[i].stage # "complete" =>
                /\ events[i].progress >= 0
                /\ events[i].progress < 100 * StepsRequested(flags)
          /\ events[i].progress = 100 * StepsRequested(flags) =>
                events[i].stage = "complete"

\* a one-stage call sent the warning checkpoint, whose fraction is capped,
\* and then completed
C23_Witness ==
    /\ pc = "returned"
    /\ total_steps = 1
    /\ \E i \in 1..Len(events) :
          events[i].message = "warning" /\ events[i].progress = 99
    /\ Last(events).stage = "complete"

\* the adapter and the stage of each call a run with these flags makes
ExpectedCalls(f) ==
    <<<<"llm", "manual">>>>
    \o (IF f.gherkin THEN <<<<"llm", "gherkin">>>> ELSE <<>>)
    \o (IF f.selenium THEN <<<<"code_llm", "selenium">>>> ELSE <<>>)
    \o (IF f.playwright THEN <<<<"code_llm", "playwright">>>> ELSE <<>>)

\* C24: while no adapter call fails, the calls made are one per stage run
\* so far, in stage order, manual and gherkin on the main adapter and
\* selenium and playwright on the code adapter; a returned suite has had
\* one call per requested stage and its unrequested lists are empty.
C24_OneCallPerStage ==
    AllReturned =>
        /\ Len(calls) <= Len(ExpectedCalls(flags))
        /\ \A i \in 1..Len(calls) :
              <<calls[i].adapter, calls[i].stage>> = ExpectedCalls(flags)[i]
        /\ pc \in StageTags => Len(calls) = StagesBefore(pc, flags)
        /\ pc \in {"final", "returned"} => Len(calls) = StepsRequested(flags)
        /\ pc = "returned" =>
              /\ ~flags.gherkin => outcome.suite.gherkin_scripts = <<>>
              /\ ~flags.selenium => outcome.suite.selenium_scripts = <<>>
              /\ ~flags.playwright => outcome.suite.playwright_scripts = <<>>

\* a call that asked for selenium but not gherkin or playwright returned
\* after its two adapter calls
C24_Witness ==
    /\ pc = "returned"
    /\ flags = [gherkin |-> FALSE, selenium |-> TRUE, playwright |-> FALSE]
    /\ Len(calls) = 2
    /\ calls[2].adapter = "code_llm"
    /\ outcome.suite.selenium_scripts # <<>>

\* C25: complete and error are terminal: no event follows a complete
\* event or an error event, whatever the callback does.
C25_TerminalEvents ==
    \A i \in 1..Len(events) :
       events[i].stage \in {"complete", "error"} => i = Len(events)

\* C30: the completion flag is set exactly on the terminal events: true on
\* complete and on error, false on every checkpoint event.
C30_CompletedOnTerminalEvents ==
    \A i \in 1..Len(events) :
       events[i].completed <=> events[i].stage \in {"complete", "error"}

----------------------------------------------------------------------------
(* Properties of the raw-text fallbacks (specification SpecParse) *)

\* the BDD parser was called and found no artifact in JSON
GherkinFallbackUsed ==
    /\ op = "_parse_gherkin_scripts"
    /\ ScriptsStructured(ExtractJson(text), "feature_files", "scripts",
                         "g_ff", "g_sc", "gherkin") = <<>>

\* a block holds a scenario declaration (outline variant included)
DeclaresScenario(block) ==
    \E p \in 1..Len(block) : block[p] \in {"Scenario:", "Scenario Outline:"}

\* the blocks of the text that hold a scenario declaration, in order
RECURSIVE DeclaringBlocks(_)
DeclaringBlocks(blocks) ==
    IF blocks = <<>> THEN <<>>
    ELSE (IF DeclaresScenario(Head(blocks)) THEN <<Strip(Head(blocks))>> ELSE <<>>)
         \o DeclaringBlocks(Tail(blocks))

\* C26: when JSON yields no artifact, the BDD fallback returns one feature
\* file for each block from a Feature: keyword to the next one (or the end)
\* that holds a scenario declaration; its scenario_count is the number of
\* scenario declarations of its block, so at least 1, and its filename is
\* the slug of the declared feature name.
C26_FeatureFilePerDeclaringBlock ==
    GherkinFallbackUsed =>
        LET blocks == DeclaringBlocks(FeatureBlocks(text, 1))
        IN  /\ Len(result) = Len(blocks)
            /\ \A k \in 1..Len(result) :
                  /\ k <= Len(blocks) => result[k].content = Text(blocks[k])
                  /\ result[k].scenario_count = Num(ScenarioCount(result[k].content.v))
                  /\ result[k].scenario_count.v >= 1
                  /\ result[k].filename =
                        Str(Prefix(Slug(FeatureName(result[k].content.v)), FilenameCap)
                            \o ".feature")

\* the automation-script parser was called and found no artifact in JSON
CodeFallbackUsed ==
    /\ op \in {"selenium", "playwright"}
    /\ ScriptsStructured(ExtractJson(text), "scripts", "feature_files",
                         "a_sc", "a_ff", op) = <<>>

\* C27: the n artifacts the automation-script fallback returns are numbered
\* 1..n in order of appearance (test_generated_1 ... test_generated_n with
\* the language's extension), whatever fenced blocks were rejected before
\* or between them.
C27_KeptBlocksNumberedInSequence ==
    CodeFallbackUsed =>
        \A k \in 1..Len(result) :
           result[k].filename = Str("test_generated_" \o ToStr(k) \o FileExt(op))

----------------------------------------------------------------------------
(* Properties of the local-inference probe (specification SpecAdapter) *)

\* name begins with base
StartsWith(name, base) ==
    Len(base) <= Len(name) /\ SubSeq(name, 1, Len(base)) = base

\* C28: is_available of the local-inference variant answers true exactly
\* when the listing of installed models is reachable and the name of some
\* installed model, its tag after the colon left out, begins with the base
\* name of the requested model.
C28_AvailableByBaseNamePrefix ==
    (acall.op = "is_available" /\ self.variant = "ollama") =>
        (acall.result.flag <=>
            /\ ~DiscoveryFailed
            /\ \E k \in 1..Len(backend[1].names) :
                  StartsWith(BaseModel(backend[1].names[k]), BaseModel(self.model)))

----------------------------------------------------------------------------
(* Properties of the facade (specification SpecFacade) *)

\* C29: after any construction, refreshes (failed ones included) and
\* settings changes, get_provider_name() names the provider of the variant
\* generate() dispatches to.
C29_ProviderNameIsDispatched ==
    llm_adapter.named # "" => llm_adapter.named = llm_adapter.dispatched

====
